---- MODULE Spec2Model ----
(***************************************************************************)
(* SmartDocs: the semantic chunker (chunking_service.py), the RAG indexing *)
(* step of process_document (document_service.py), the hybrid search tool  *)
(* rag_search (rag_tool.py), and the runs of process_document started by   *)
(* the documents API (api/documents.py) and by the job worker              *)
(* (worker_service.py).                                                    *)
(*                                                                         *)
(* Text is a sequence of symbols:                                          *)
(*   "w"   a word without terminal punctuation                             *)
(*   "e"   a word ending in . ! or ?  (a sentence end)                     *)
(*   "CL"  the keyword CLÁUSULA (a section marker when it starts a line    *)
(*         and white space follows it)                                     *)
(*   "nl"  a line break "\n"                                               *)
(*   "ST"  the text <|endoftext|>, a special token of cl100k_base          *)
(*   "["   the literal "[Continuação de: " of the continuation prefix      *)
(*   "]"   the literal "]" of the continuation prefix                      *)
(* Two neighbouring symbols that are not line breaks are separated by one  *)
(* blank.  Two or more "nl" in a row are a blank line.                     *)
(***************************************************************************)
EXTENDS Integers, Sequences, FiniteSets, TLC

VARIABLES
    \* ---- process_document / create_chunks
    extracted_text,   \* extraction["extracted_text"]
    max_tokens,       \* create_chunks parameter
    overlap_tokens,   \* create_chunks parameter
    chunks,           \* the list create_chunks returned
    db_chunks,        \* DocumentChunk rows added for the document
    rag_log,          \* event_type of the RAG DocumentLog of the current run
    cpc,              \* position inside process_document
    doc_status,       \* documents.status of the document
    embedded,         \* len(all_embeddings) inside generate_embeddings
    runs,             \* process_document runs started so far
    requests,         \* reprocess requests the owner still makes
    \* ---- rag_search
    documents,        \* table documents: id -> [user_id, status, filename]
    document_chunks,  \* table document_chunks: id -> [document_id, distance, ts]
    user_id,          \* the request's user (make_rag_search_tool)
    is_admin,         \* the request's role (make_rag_search_tool)
    document_ids,     \* argument document_ids, a string
    filename,         \* argument filename, a string
    rows,             \* the local variable rows
    pool,             \* the joined rows of the last execute_query, before LIMIT
    reads,            \* the execute_query calls made so far, with their results
    embed_calls,      \* calls of generate_single_embedding so far
    result,           \* what rag_search returned: its Python type and, as kind,
                      \* the opening words of the text ("Erro ao realizar busca
                      \* semântica", "Nenhum trecho", "Encontrados")
    rpc,              \* position inside rag_search
    \* ---- runs of process_document for one document
    d_status,         \* documents.status as committed in the database
    row_lock,         \* the run whose open transaction has written the
                      \* documents row (0: none)
    task,             \* per run of process_document: its position, and the
                      \* status it loaded
    chunk_sets,       \* the runs whose DocumentChunk rows are committed
    overlaps,         \* the pairs of runs that were under way together
    req,              \* the reprocess request being handled
    replies,          \* the answers reprocess_document gave
    to_come,          \* reprocess requests still to come
    job,              \* the document's row in document_processing_jobs
    wpc               \* position inside WorkerService._process_next_job

cvars == <<extracted_text, max_tokens, overlap_tokens, chunks, db_chunks, rag_log, cpc,
           doc_status, embedded, runs, requests>>

store == <<documents, document_chunks>>

request == <<user_id, is_admin, document_ids, filename>>

rvars == <<store, request, rows, pool, reads, embed_calls, result, rpc>>

jvars == <<d_status, row_lock, task, chunk_sets, overlaps, req, replies, to_come, job, wpc>>

vars == <<cvars, rvars, jvars>>

\* ------------------------------------------------------------------ bounds
MaxTextLen == 5
MaxBudget == 3
MaxOverlap == 2
MaxRuns == 2
MaxTasks == 3

Alphabet == {"w", "e", "CL", "nl"}

Texts == UNION {[1..n -> Alphabet] : n \in 0..MaxTextLen}

\* ----------------------------------------------------------- text helpers
Min(S) == CHOOSE x \in S : \A y \in S : x <= y

IsSpace(s) == s \in {"nl", " "}

RECURSIVE lstrip(_)
lstrip(t) ==
    IF t = <<>> THEN <<>>
    ELSE IF IsSpace(Head(t)) THEN lstrip(Tail(t)) ELSE t

RECURSIVE rstrip(_)
rstrip(t) ==
    IF t = <<>> THEN <<>>
    ELSE IF IsSpace(t[Len(t)]) THEN rstrip(SubSeq(t, 1, Len(t) - 1)) ELSE t

\* str.strip()
strip(t) == rstrip(lstrip(t))

\* text.strip().split("\n")[0]
first_line(t) ==
    LET s == strip(t)
        brk == {i \in 1..Len(s) : s[i] = "nl"}
    IN  IF brk = {} THEN s ELSE SubSeq(s, 1, Min(brk) - 1)

\* Characters of one symbol, and len() of a text.  A word is WordChars
\* characters long; the blank between two words counts one character.
WordChars == 5

RECURSIVE char_len(_)
char_len(t) ==
    IF t = <<>> THEN 0
    ELSE IF Len(t) = 1 THEN (IF IsSpace(t[1]) THEN 1 ELSE WordChars)
    ELSE (IF IsSpace(t[1]) THEN 1
          ELSE WordChars + (IF IsSpace(t[2]) THEN 0 ELSE 1))
         + char_len(Tail(t))

\* s[:n], cut at the last whole symbol that fits
RECURSIVE take_chars(_, _)
take_chars(t, n) ==
    IF char_len(t) <= n THEN t ELSE take_chars(SubSeq(t, 1, Len(t) - 1), n)

\* sep.join(parts): " " is the implicit blank, "\n\n" is two line breaks
RECURSIVE join(_, _)
join(sep, parts) ==
    IF parts = <<>> THEN <<>>
    ELSE IF Len(parts) = 1 THEN parts[1]
    ELSE parts[1] \o sep \o join(sep, Tail(parts))

\* ------------------------------------------------------------ token counter
\* len(_ENCODING.encode(text)) with the cl100k_base vocabulary: a word is one
\* token, the blank before a word belongs to the word's token, and a run of
\* line breaks is one token.
_count_tokens(t) ==
    Cardinality({i \in 1..Len(t) : ~IsSpace(t[i])})
    + Cardinality({i \in 1..Len(t) : IsSpace(t[i]) /\ (i = 1 \/ ~IsSpace(t[i - 1]))})

\* _ENCODING.encode(text) is called with the default disallowed_special="all":
\* it raises ValueError on a text that holds the text of a special token
encode_raises(t) == \E i \in 1..Len(t) : t[i] = "ST"

\* ----------------------------------------------------------------- segmenter
\* _SECTION_PATTERNS: ^(?:CLÁUSULA|...)\s+ under re.MULTILINE
SectionMarkers == {"CL"}

\* _HEADING_CLASSIFIER, in dictionary order
_classify_section(t) ==
    LET fl == IF strip(t) # <<>> THEN first_line(t) ELSE <<>>
    IN  IF \E i \in 1..Len(fl) : fl[i] = "CL" THEN "cláusula" ELSE "texto_geral"

RECURSIVE SortedSeq(_)
SortedSeq(S) ==
    IF S = {} THEN <<>> ELSE <<Min(S)>> \o SortedSeq(S \ {Min(S)})

_find_section_boundaries(t) ==
    SortedSeq({i \in 1..Len(t) :
                 /\ t[i] \in SectionMarkers
                 /\ (i = 1 \/ t[i - 1] = "nl")
                 /\ i < Len(t)})

RECURSIVE SectionSpans(_, _, _)
SectionSpans(t, boundaries, i) ==
    IF i > Len(boundaries) THEN <<>>
    ELSE LET start == boundaries[i]
             end == IF i + 1 <= Len(boundaries) THEN boundaries[i + 1] ELSE Len(t) + 1
             section == strip(SubSeq(t, start, end - 1))
         IN  (IF section # <<>> THEN <<section>> ELSE <<>>)
             \o SectionSpans(t, boundaries, i + 1)

\* The segmenter without the preamble of lines 112-115
_split_into_sections_NoPreamble(t) ==
    LET boundaries == _find_section_boundaries(t)
    IN  IF boundaries = <<>>
        THEN (IF strip(t) # <<>> THEN <<t>> ELSE <<>>)
        ELSE SectionSpans(t, boundaries, 1)

_split_into_sections(t) ==
    LET boundaries == _find_section_boundaries(t)
    IN  IF boundaries = <<>>
        THEN (IF strip(t) # <<>> THEN <<t>> ELSE <<>>)
        ELSE LET preamble == strip(SubSeq(t, 1, boundaries[1] - 1))
             IN  (IF boundaries[1] > 1 /\ preamble # <<>> THEN <<preamble>> ELSE <<>>)
                 \o SectionSpans(t, boundaries, 1)

\* ------------------------------------------------------------------ splitter
\* re.split(r"\n\s*\n", text)
RECURSIVE SplitParagraphs(_)
SplitParagraphs(t) ==
    LET brk == {i \in 1..(Len(t) - 1) : t[i] = "nl" /\ t[i + 1] = "nl"}
    IN  IF brk = {} THEN <<t>>
        ELSE LET i == Min(brk)
             IN  <<SubSeq(t, 1, i - 1)>> \o SplitParagraphs(lstrip(SubSeq(t, i, Len(t))))

\* [p.strip() for p in paragraphs if p.strip()]
RECURSIVE StripNonBlank(_)
StripNonBlank(ps) ==
    IF ps = <<>> THEN <<>>
    ELSE (IF strip(ps[1]) # <<>> THEN <<strip(ps[1])>> ELSE <<>>) \o StripNonBlank(Tail(ps))

\* re.split(r"(?<=[.!?])\s+", para)
RECURSIVE SplitSentences(_)
SplitSentences(p) ==
    LET ends == {i \in 1..(Len(p) - 1) : p[i] = "e"}
    IN  IF ends = {} THEN <<p>>
        ELSE LET i == Min(ends)
             IN  <<SubSeq(p, 1, i)>> \o SplitSentences(lstrip(SubSeq(p, i + 1, Len(p))))

RECURSIVE SumTokens(_)
SumTokens(parts) ==
    IF parts = <<>> THEN 0 ELSE _count_tokens(parts[1]) + SumTokens(Tail(parts))

\* The sentence buffer restarted empty after a flush
SentenceOverlap_None(sent_parts, j, overlap_t, ov) == <<>>

\* lines 167-173: for s in reversed(sent_parts) ...
RECURSIVE SentenceOverlap(_, _, _, _)
SentenceOverlap(sent_parts, j, overlap_t, ov) ==
    IF j = 0 THEN <<>>
    ELSE LET t == overlap_t + _count_tokens(sent_parts[j])
         IN  IF t > ov THEN <<>>
             ELSE SentenceOverlap(sent_parts, j - 1, t, ov) \o <<sent_parts[j]>>

\* lines 162-179: the sentence loop over one oversized paragraph
RECURSIVE SentenceLoop(_, _, _, _, _, _, _)
SentenceLoop(sentences, i, out, sent_parts, sent_tokens, mx, ov) ==
    IF i > Len(sentences)
    THEN (IF sent_parts # <<>> THEN Append(out, join(<<>>, sent_parts)) ELSE out)
    ELSE LET sent == sentences[i]
             st == _count_tokens(sent)
         IN  IF sent_tokens + st > mx /\ sent_parts # <<>>
             THEN LET overlap_parts == SentenceOverlap(sent_parts, Len(sent_parts), 0, ov)
                  IN  SentenceLoop(sentences, i + 1,
                                   Append(out, join(<<>>, sent_parts)),
                                   Append(overlap_parts, sent),
                                   SumTokens(overlap_parts) + st, mx, ov)
             ELSE SentenceLoop(sentences, i + 1, out,
                               Append(sent_parts, sent), sent_tokens + st, mx, ov)

\* The overlap of at most the last paragraph of the flushed buffer
ParagraphOverlap_LastOnly(current_parts, j, overlap_t, ov) ==
    IF j = 0 \/ _count_tokens(current_parts[j]) > ov THEN <<>>
    ELSE <<current_parts[j]>>

\* lines 186-193: for p in reversed(current_parts) ...
RECURSIVE ParagraphOverlap(_, _, _, _)
ParagraphOverlap(current_parts, j, overlap_t, ov) ==
    IF j = 0 THEN <<>>
    ELSE LET pt == _count_tokens(current_parts[j])
         IN  IF overlap_t + pt > ov THEN <<>>
             ELSE ParagraphOverlap(current_parts, j - 1, overlap_t + pt, ov)
                  \o <<current_parts[j]>>

\* lines 147-202: the paragraph loop
RECURSIVE ParagraphLoop(_, _, _, _, _, _, _)
ParagraphLoop(paragraphs, i, out, current_parts, current_tokens, mx, ov) ==
    IF i > Len(paragraphs)
    THEN (IF current_parts # <<>>
          THEN Append(out, join(<<"nl", "nl">>, current_parts)) ELSE out)
    ELSE LET para == paragraphs[i]
             para_tokens == _count_tokens(para)
         IN  IF para_tokens > mx
             THEN LET flushed == IF current_parts # <<>>
                                 THEN Append(out, join(<<"nl", "nl">>, current_parts))
                                 ELSE out
                  IN  ParagraphLoop(paragraphs, i + 1,
                                    SentenceLoop(SplitSentences(para), 1, flushed,
                                                 <<>>, 0, mx, ov),
                                    <<>>, 0, mx, ov)
             ELSE IF current_tokens + para_tokens > mx /\ current_parts # <<>>
             THEN LET overlap_parts ==
                          ParagraphOverlap(current_parts, Len(current_parts), 0, ov)
                  IN  ParagraphLoop(paragraphs, i + 1,
                                    Append(out, join(<<"nl", "nl">>, current_parts)),
                                    Append(overlap_parts, para),
                                    SumTokens(overlap_parts) + para_tokens, mx, ov)
             ELSE ParagraphLoop(paragraphs, i + 1, out,
                                Append(current_parts, para),
                                current_tokens + para_tokens, mx, ov)

\* The splitter without the flush of lines 201-202 after the loop
_split_long_text_NoFinalFlush(t, mx, ov) ==
    LET paragraphs == StripNonBlank(SplitParagraphs(t))
        r == ParagraphLoop(paragraphs, 1, <<>>, <<>>, 0, mx, ov)
    IN  IF paragraphs = <<>> THEN <<>>
        ELSE IF Len(r) > 1 THEN SubSeq(r, 1, Len(r) - 1) ELSE r

_split_long_text(t, mx, ov) ==
    LET paragraphs == StripNonBlank(SplitParagraphs(t))
    IN  IF paragraphs = <<>> THEN <<>>
        ELSE ParagraphLoop(paragraphs, 1, <<>>, <<>>, 0, mx, ov)

\* ------------------------------------------------------------- create_chunks
\* The continuation prefix built whatever the length of the first line
heading_prefix_Always(fl) == <<"[">> \o take_chars(fl, 100) \o <<"]", "nl", "nl">>

\* f"[Continuação de: {first_line[:100]}]\n\n" if len(first_line) < 120 else ""
heading_prefix(fl) ==
    IF char_len(fl) < 120
    THEN <<"[">> \o take_chars(fl, 100) \o <<"]", "nl", "nl">>
    ELSE <<>>

\* A chunk numbered by its position inside its own section
ChunkData_SubIndex(content, section_type, token_count, chunk_index, start, sub, total) ==
    [content |-> content, section_type |-> section_type,
     token_count |-> token_count,
     chunk_index |-> IF sub >= 0 THEN sub ELSE chunk_index,
     original_section_start |-> start, sub_chunk |-> sub,
     total_sub_chunks |-> total]

ChunkData(content, section_type, token_count, chunk_index, start, sub, total) ==
    [content |-> content, section_type |-> section_type,
     token_count |-> token_count, chunk_index |-> chunk_index,
     original_section_start |-> start, sub_chunk |-> sub,
     total_sub_chunks |-> total]

\* lines 263-279: for i, sub in enumerate(sub_chunks); i counts from 0
RECURSIVE SubChunkLoop(_, _, _, _, _, _)
SubChunkLoop(sub_chunks, i, acc, section_type, fl, chunk_idx) ==
    IF i >= Len(sub_chunks) THEN [chunks |-> acc, chunk_idx |-> chunk_idx]
    ELSE LET sub == sub_chunks[i + 1]
             content == IF i = 0 THEN sub ELSE heading_prefix(fl) \o sub
             tc == _count_tokens(content)
         IN  SubChunkLoop(sub_chunks, i + 1,
                          Append(acc, ChunkData(content, section_type, tc, chunk_idx,
                                                take_chars(fl, 80), i, Len(sub_chunks))),
                          section_type, fl, chunk_idx + 1)

\* The section loop with the test token_count < max_tokens
RECURSIVE SectionLoop_StrictFit(_, _, _, _, _, _)
SectionLoop_StrictFit(sections, k, acc, chunk_idx, mx, ov) ==
    IF k > Len(sections) THEN acc
    ELSE LET section == sections[k]
             section_type == _classify_section(section)
             token_count == _count_tokens(section)
         IN  IF token_count < mx
             THEN SectionLoop_StrictFit(sections, k + 1,
                              Append(acc, ChunkData(section, section_type, token_count,
                                                    chunk_idx, take_chars(section, 80),
                                                    -1, -1)),
                              chunk_idx + 1, mx, ov)
             ELSE LET r == SubChunkLoop(_split_long_text(section, mx, ov), 0, acc,
                                        section_type, first_line(section), chunk_idx)
                  IN  SectionLoop_StrictFit(sections, k + 1, r.chunks, r.chunk_idx, mx, ov)

\* lines 236-279: for section in sections
RECURSIVE SectionLoop(_, _, _, _, _, _)
SectionLoop(sections, k, acc, chunk_idx, mx, ov) ==
    IF k > Len(sections) THEN acc
    ELSE LET section == sections[k]
             section_type == _classify_section(section)
             token_count == _count_tokens(section)
         IN  IF token_count <= mx
             THEN SectionLoop(sections, k + 1,
                              Append(acc, ChunkData(section, section_type, token_count,
                                                    chunk_idx, take_chars(section, 80),
                                                    -1, -1)),
                              chunk_idx + 1, mx, ov)
             ELSE LET r == SubChunkLoop(_split_long_text(section, mx, ov), 0, acc,
                                        section_type, first_line(section), chunk_idx)
                  IN  SectionLoop(sections, k + 1, r.chunks, r.chunk_idx, mx, ov)

create_chunks(t, mx, ov) ==
    IF t = <<>> \/ strip(t) = <<>> THEN <<>>
    ELSE SectionLoop(_split_into_sections(t), 1, <<>>, 0, mx, ov)

\* line 238: _count_tokens(section) raises for one of the sections
create_chunks_raises(t) ==
    /\ t # <<>> /\ strip(t) # <<>>
    /\ \E k \in 1..Len(_split_into_sections(t)) : encode_raises(_split_into_sections(t)[k])

\* ---------------------------------------------- process_document, step 4
\* _BATCH_SIZE = 16
_BATCH_SIZE == 16

\* DocumentChunk(document_id=doc.id, chunk_index=chunk.chunk_index, ...);
\* created_at is the server default now(), here the number of the run
DocumentChunk(chunk, now) ==
    [chunk_index |-> chunk.chunk_index, content |-> chunk.content,
     section_type |-> chunk.section_type, token_count |-> chunk.token_count,
     created_at |-> now]

\* lines 177-187: for chunk, embedding in zip(chunks, embeddings): db.add(...)
RECURSIVE AddChunks(_, _, _)
AddChunks(cs, n, now) ==
    IF n = 0 THEN <<>> ELSE Append(AddChunks(cs, n - 1, now), DocumentChunk(cs[n], now))

\* ------------------------------------------------------------ rag_search
\* _MAX_DISTANCE = 0.65, in hundredths
_MAX_DISTANCE == 65
\* k = 60
RRF_k == 60
\* COALESCE(v.semantic_rank, 1000), COALESCE(k.keyword_rank, 1000)
MissingRank == 1000
\* COALESCE(v.distance, 1.0), in hundredths
MissingDistance == 100
\* execute_query(clauses, limit=10, ...)
DefaultLimit == 10
\* execute_query(base_where_clauses, limit=5, use_threshold=False)
FallbackLimit == 5

Digits == {"0", "1", "2", "3", "4", "5", "6", "7", "8", "9"}

DigitValue(c) ==
    CASE c = "0" -> 0 [] c = "1" -> 1 [] c = "2" -> 2 [] c = "3" -> 3 [] c = "4" -> 4
      [] c = "5" -> 5 [] c = "6" -> 6 [] c = "7" -> 7 [] c = "8" -> 8 [] c = "9" -> 9

\* str.replace(ch, "")
RECURSIVE remove_char(_, _)
remove_char(s, ch) ==
    IF s = <<>> THEN <<>>
    ELSE (IF s[1] = ch THEN <<>> ELSE <<s[1]>>) \o remove_char(Tail(s), ch)

\* str.split(",")
RECURSIVE split_comma(_)
split_comma(s) ==
    LET commas == {i \in 1..Len(s) : s[i] = ","}
    IN  IF commas = {} THEN <<s>>
        ELSE <<SubSeq(s, 1, Min(commas) - 1)>>
             \o split_comma(SubSeq(s, Min(commas) + 1, Len(s)))

\* int(x) of a stripped token: defined for a non-empty run of digits
IsInt(x) == x # <<>> /\ \A i \in 1..Len(x) : x[i] \in Digits

RECURSIVE int(_)
int(x) == IF x = <<>> THEN 0 ELSE 10 * int(SubSeq(x, 1, Len(x) - 1)) + DigitValue(x[Len(x)])

\* The list comprehension skipping the tokens int() rejects
RECURSIVE parse_tokens_SkipInvalid(_)
parse_tokens_SkipInvalid(toks) ==
    IF toks = <<>> THEN [ok |-> TRUE, ids |-> {}]
    ELSE LET x == strip(toks[1])
             rest == parse_tokens_SkipInvalid(Tail(toks))
         IN  IF x = <<>> \/ ~IsInt(x) THEN rest
             ELSE [ok |-> TRUE, ids |-> {int(x)} \cup rest.ids]

\* lines 84-85: [int(x.strip()) for x in clean_ids.split(",") if x.strip()]
\* ok = FALSE stands for the ValueError of int()
RECURSIVE parse_tokens(_)
parse_tokens(toks) ==
    IF toks = <<>> THEN [ok |-> TRUE, ids |-> {}]
    ELSE LET x == strip(toks[1])
             rest == parse_tokens(Tail(toks))
         IN  IF x = <<>> THEN rest
             ELSE IF ~IsInt(x) THEN [ok |-> FALSE, ids |-> {}]
             ELSE [ok |-> rest.ok, ids |-> IF rest.ok THEN {int(x)} \cup rest.ids ELSE {}]

parse_ids(s) == parse_tokens(split_comma(remove_char(remove_char(s, "["), "]")))

\* The WHERE clauses without the d.user_id clause
base_where_clauses_NoOwner(uid, admin, doc_ids, fname) ==
    [owner   |-> 0,
     ids     |-> IF doc_ids # <<>> /\ strip(doc_ids) # <<>> /\ parse_ids(doc_ids).ok
                 THEN parse_ids(doc_ids).ids ELSE {},
     pattern |-> IF fname # <<>> /\ strip(fname) # <<>>
                 THEN <<"%">> \o strip(fname) \o <<"%">> ELSE <<>>]

\* The WHERE clauses when a ValueError discards the clauses built so far and
\* skips the filename clause
base_where_clauses_DropAll(uid, admin, doc_ids, fname) ==
    LET failed == doc_ids # <<>> /\ strip(doc_ids) # <<>> /\ ~parse_ids(doc_ids).ok
    IN  [owner   |-> IF ~admin /\ ~failed THEN uid ELSE 0,
         ids     |-> IF doc_ids # <<>> /\ strip(doc_ids) # <<>> /\ parse_ids(doc_ids).ok
                     THEN parse_ids(doc_ids).ids ELSE {},
         pattern |-> IF fname # <<>> /\ strip(fname) # <<>> /\ ~failed
                     THEN <<"%">> \o strip(fname) \o <<"%">> ELSE <<>>]

\* lines 72-98: the WHERE clauses and their parameters
\*   owner = 0: no d.user_id clause;  ids = {}: no IN clause;
\*   pattern = <<>>: no ILIKE clause
base_where_clauses(uid, admin, doc_ids, fname) ==
    [owner   |-> IF ~admin THEN uid ELSE 0,
     ids     |-> IF doc_ids # <<>> /\ strip(doc_ids) # <<>> /\ parse_ids(doc_ids).ok
                 THEN parse_ids(doc_ids).ids ELSE {},
     pattern |-> IF fname # <<>> /\ strip(fname) # <<>>
                 THEN <<"%">> \o strip(fname) \o <<"%">> ELSE <<>>]

\* line 172
is_filtered(doc_ids, fname) ==
    (doc_ids # <<>> /\ strip(doc_ids) # <<>>) \/ (fname # <<>> /\ strip(fname) # <<>>)

Lower(c) == IF c = "A" THEN "a" ELSE IF c = "X" THEN "x" ELSE c

\* s ILIKE p:  % any run of characters, _ any one character, case ignored
RECURSIVE ILIKE(_, _)
ILIKE(s, p) ==
    IF p = <<>> THEN s = <<>>
    ELSE IF p[1] = "%" THEN ILIKE(s, Tail(p)) \/ (s # <<>> /\ ILIKE(Tail(s), p))
    ELSE /\ s # <<>>
         /\ (p[1] = "_" \/ Lower(p[1]) = Lower(s[1]))
         /\ ILIKE(Tail(s), Tail(p))

\* WHERE {where_sql} on the join of document_chunks dc and documents d
Where(docs, chs, clauses, c) ==
    LET d == docs[chs[c].document_id]
    IN  /\ d.status = "processed"
        /\ (clauses.owner # 0 => d.user_id = clauses.owner)
        /\ (clauses.ids # {} => chs[c].document_id \in clauses.ids)
        /\ (clauses.pattern # <<>> => ILIKE(d.filename, clauses.pattern))

\* lines 111-127, the rows of vector_search before ORDER BY / LIMIT
VectorRows(docs, chs, clauses, use_threshold) ==
    {c \in DOMAIN chs :
        /\ chs[c].document_id \in DOMAIN docs
        /\ Where(docs, chs, clauses, c)
        /\ (use_threshold => chs[c].distance < _MAX_DISTANCE)}

\* lines 130-137, the rows of keyword_search before ORDER BY / LIMIT
\* ts > 0: search_vector @@ query holds and ts is ts_rank_cd
KeywordRows(docs, chs, clauses) ==
    {c \in DOMAIN chs :
        /\ chs[c].document_id \in DOMAIN docs
        /\ Where(docs, chs, clauses, c)
        /\ chs[c].ts > 0}

\* The rank taken over the whole table, before the WHERE clause
semantic_rank_Unfiltered(chs, V, c) ==
    1 + Cardinality({d \in DOMAIN chs : chs[d].distance < chs[c].distance})

\* RANK() OVER (ORDER BY distance)
semantic_rank(chs, V, c) == 1 + Cardinality({d \in V : chs[d].distance < chs[c].distance})

\* RANK() OVER (ORDER BY ts_rank_cd(...) DESC)
keyword_rank(chs, K, c) == 1 + Cardinality({d \in K : chs[d].ts > chs[c].ts})

\* A channel query without its LIMIT
Limit_None(S, key, n) == {S}

\* ORDER BY key LIMIT n: every set of n rows that no left-out row precedes
Limit(S, key, n) ==
    IF Cardinality(S) <= n THEN {S}
    ELSE LET sure == {c \in S : Cardinality({d \in S : key[d] <= key[c]}) <= n}
             border == {c \in S \ sure : Cardinality({d \in S : key[d] < key[c]}) < n}
         IN  {sure \cup B : B \in {X \in SUBSET border :
                                      Cardinality(X) = n - Cardinality(sure)}}

\* fractions <<numerator, denominator>>
FracAdd(x, y) == <<x[1] * y[2] + y[1] * x[2], x[2] * y[2]>>
FracLess(x, y) == x[1] * y[2] < y[1] * x[2]
FracEq(x, y) == x[1] * y[2] = y[1] * x[2]

\* The placeholder rank used inside the division
rrf_score_Placeholder(sr, kr) ==
    FracAdd(<<1, RRF_k + (IF sr = 0 THEN MissingRank ELSE sr)>>,
            <<1, RRF_k + (IF kr = 0 THEN MissingRank ELSE kr)>>)

\* lines 152-153: COALESCE(1.0 / (k + v.semantic_rank), 0.0)
\*              + COALESCE(1.0 / (k + k.keyword_rank), 0.0)
\* a rank of 0 stands for NULL (the chunk has no row in that CTE)
rrf_score(sr, kr) ==
    FracAdd(IF sr = 0 THEN <<0, 1>> ELSE <<1, RRF_k + sr>>,
            IF kr = 0 THEN <<0, 1>> ELSE <<1, RRF_k + kr>>)

\* lines 141-155: vector_search v FULL OUTER JOIN keyword_search k
Joined(docs, chs, V, K, VL, KL) ==
    {[chunk_id      |-> c,
      document_id   |-> chs[c].document_id,
      filename      |-> docs[chs[c].document_id].filename,
      distance      |-> IF c \in VL THEN chs[c].distance ELSE MissingDistance,
      semantic_rank |-> IF c \in VL THEN semantic_rank(chs, V, c) ELSE MissingRank,
      keyword_rank  |-> IF c \in KL THEN keyword_rank(chs, K, c) ELSE MissingRank,
      rrf_score     |-> rrf_score(IF c \in VL THEN semantic_rank(chs, V, c) ELSE 0,
                                  IF c \in KL THEN keyword_rank(chs, K, c) ELSE 0)]
     : c \in VL \cup KL}

\* ORDER BY rrf_score without DESC
RECURSIVE OrderByScore_Asc(_, _)
OrderByScore_Asc(P, n) ==
    IF n = 0 \/ P = {} THEN {<<>>}
    ELSE LET best == {r \in P : \A q \in P : ~FracLess(q.rrf_score, r.rrf_score)}
         IN  UNION {{<<r>> \o rest : rest \in OrderByScore_Asc(P \ {r}, n - 1)} : r \in best}

\* lines 156-157: ORDER BY rrf_score DESC LIMIT n, every order SQL may produce
RECURSIVE OrderByScore(_, _)
OrderByScore(P, n) ==
    IF n = 0 \/ P = {} THEN {<<>>}
    ELSE LET best == {r \in P : \A q \in P : ~FracLess(r.rrf_score, q.rrf_score)}
         IN  UNION {{<<r>> \o rest : rest \in OrderByScore(P \ {r}, n - 1)} : r \in best}

\* lines 101-164: every [pool, rows] the statement may produce
execute_query(docs, chs, clauses, limit, use_threshold) ==
    LET V == VectorRows(docs, chs, clauses, use_threshold)
        K == KeywordRows(docs, chs, clauses)
        vkey == [c \in V |-> chs[c].distance]
        kkey == [c \in K |-> keyword_rank(chs, K, c)]
    IN  UNION {UNION {LET j == Joined(docs, chs, V, K, VL, KL)
                      IN  {[pool |-> j, rows |-> rs] : rs \in OrderByScore(j, limit)}
                      : KL \in Limit(K, kkey, limit * 2)}
               : VL \in Limit(V, vkey, limit * 2)}

\* The fallback taken whenever a filter was given
fallback_due_Filtered(rs, doc_ids, fname) == is_filtered(doc_ids, fname)

\* line 173
fallback_due(rs, doc_ids, fname) == rs = <<>> /\ is_filtered(doc_ids, fname)

\* ------------------------------------------------------------ initial states
\* file names and arguments are strings of single characters
Str1(a) == <<a>>
Str2(a, b) == <<a, b>>
Str3(a, b, c) == <<a, b, c>>

FilenameArgs == {<<>>, Str1(" "), Str1("X"), Str3("a", "_", "b")}

DocumentIdsArgs ==
    {<<>>, Str1(" "), Str1("2"), Str1("3"), Str3("x", ",", "2"), Str1(","),
     <<"[", "1", ",", " ", "2", "]">>}

Arguments ==
    (DocumentIdsArgs \X {<<>>})
    \cup ({<<>>, Str1("2")} \X FilenameArgs)
    \cup {<<Str3("x", ",", "2"), Str1("X")>>}

\* Document 1 is a processed document of user 1; document 2 is another user's,
\* or is not processed
DocumentTables ==
    {<<[user_id |-> 1, status |-> "processed", filename |-> Str2("a", "b")],
       [user_id |-> o[1], status |-> o[2], filename |-> Str3("a", "x", "b")]>>
     : o \in {<<1, "processed">>, <<2, "processed">>, <<1, "uploaded">>}}

MaxChunks == 2
MaxLadder == 21

Distances == {20, 40, 80}
Relevances == {0, 1, 2}
ChunkRows == [document_id : {1, 2}, distance : Distances, ts : Relevances]

\* One representative per multiset of rows: rows in non-decreasing order of
\* (document_id, distance, ts)
RowKey(r) == r.document_id * 10000 + r.distance * 10 + r.ts
ChunkTables ==
    UNION {{t \in [1..n -> ChunkRows] :
               \A i \in 1..(n - 1) : RowKey(t[i]) <= RowKey(t[i + 1])}
           : n \in 0..MaxChunks}

\* More chunks than the fallback LIMIT, than the strict LIMIT and the fallback
\* channel LIMIT, and than the strict channel LIMIT
LadderSizes == {FallbackLimit + 1, DefaultLimit + 1, MaxLadder}

\* A ladder: n chunks of one document at pairwise different distances
\* base+1 .. base+n; chunk i matches the query text iff i >= from, and the
\* text relevance grows (up) or falls with i.  The ladders start below the
\* threshold, above it, or so that one chunk lies exactly at it.
LadderBases == {10, _MAX_DISTANCE - FallbackLimit - 1, 70}

Ladder(n, base, from, up) ==
    [i \in 1..n |-> [document_id |-> 1, distance |-> base + i,
                     ts |-> IF i < from THEN 0 ELSE IF up THEN i ELSE n + 1 - i]]

Idle_C ==
    /\ extracted_text = <<>>
    /\ max_tokens = 1
    /\ overlap_tokens = 0
    /\ chunks = <<>>
    /\ db_chunks = <<>>
    /\ rag_log = "none"
    /\ cpc = "off"
    /\ doc_status = "uploaded"
    /\ embedded = 0
    /\ runs = 0
    /\ requests = 0

Idle_R ==
    /\ documents = <<>>
    /\ document_chunks = <<>>
    /\ user_id = 1
    /\ is_admin = FALSE
    /\ document_ids = <<>>
    /\ filename = <<>>
    /\ rows = <<>>
    /\ pool = {}
    /\ reads = <<>>
    /\ embed_calls = 0
    /\ result = [kind |-> "none"]
    /\ rpc = "off"

\* Run 0 is the worker's call of process_document, the runs 1..MaxTasks are
\* the background tasks of the documents API
WorkerRun == 0
Tasks == 1..MaxTasks
Runs == {WorkerRun} \cup Tasks

NoRun == [pc |-> "none", seen |-> "none"]
NoRequest == [pc |-> "none", seen |-> "none", in_flight |-> FALSE]
NoJob == [status |-> "none", attempts |-> 0]

Idle_J ==
    /\ d_status = "uploaded"
    /\ row_lock = 0
    /\ task = [r \in Runs |-> NoRun]
    /\ chunk_sets = <<>>
    /\ overlaps = {}
    /\ req = NoRequest
    /\ replies = <<>>
    /\ to_come = 0
    /\ job = NoJob
    /\ wpc = "off"

\* A text of more sentences than one embedding batch holds
LongText == [i \in 1..(_BATCH_SIZE + 1) |-> "e"]

\* Texts that hold the text of a special token
SpecialTokenTexts == {<<"ST">>, <<"w", "nl", "nl", "ST">>, <<"CL", "w", "nl", "CL", "ST">>}

\* The texts of the documents that are reprocessed
ReprocessedTexts == {<<>>, <<"w">>, <<"e", "e">>, <<"CL", "w", "nl", "CL", "w">>, LongText}

\* Texts of several paragraphs: a buffer of two paragraphs that a third one
\* overflows, a paragraph that exceeds every budget between two short ones, and
\* such a paragraph with a sentence that exceeds every budget
ParagraphTexts ==
    {<<"w", "nl", "nl", "w", "nl", "nl", "w", "w", "nl", "nl", "w">>,
     <<"w", "nl", "nl", "e", "e", "e", "e", "e", "nl", "nl", "w">>,
     <<"w", "nl", "nl", "e", "e", "w", "w", "w", "w", "e", "e", "nl", "nl", "w">>}

\* A preamble and two sections that are split: the first line of the first is
\* short, the first line of the second is at least 120 characters long
LongHeadingText ==
    <<"w", "nl", "CL", "w", "w", "nl", "nl", "w", "nl", "CL">>
    \o [i \in 1..(120 \div WordChars) |-> "w"] \o <<"nl", "nl", "w">>

\* save_upload has stored the document (status uploaded) and upload_documents
\* has scheduled process_document; extracted_text is the text that the
\* extraction of the stored file yields.
CInit ==
    /\ \/ extracted_text \in Texts \cup SpecialTokenTexts \cup ParagraphTexts
                                \cup {LongHeadingText}
          /\ requests = 0
       \/ extracted_text \in ReprocessedTexts /\ requests \in 1..(MaxRuns - 1)
    /\ max_tokens \in 1..MaxBudget
    /\ overlap_tokens \in 0..MaxOverlap
    /\ chunks = <<>>
    /\ db_chunks = <<>>
    /\ rag_log = "none"
    /\ cpc = "scheduled"
    /\ doc_status = "uploaded"
    /\ embedded = 0
    /\ runs = 0
    /\ Idle_R
    /\ Idle_J

RStart ==
    /\ user_id = 1
    /\ rows = <<>>
    /\ pool = {}
    /\ reads = <<>>
    /\ embed_calls = 0
    /\ result = [kind |-> "none"]
    /\ rpc = "start"

RInitSmall ==
    /\ documents \in DocumentTables
    /\ document_chunks \in ChunkTables
    /\ is_admin \in BOOLEAN
    /\ \E a \in Arguments : document_ids = a[1] /\ filename = a[2]

RInitLadder ==
    /\ documents = <<[user_id |-> 1, status |-> "processed", filename |-> Str2("a", "b")]>>
    /\ \E n \in LadderSizes, base \in LadderBases, up \in BOOLEAN :
         \E from \in {1, n \div 2, n + 1} :
            document_chunks = Ladder(n, base, from, up)
    /\ is_admin = FALSE
    /\ document_ids \in {<<>>, Str1("1")}
    /\ filename = <<>>

RInit ==
    /\ Idle_C
    /\ Idle_J
    /\ RStart
    /\ (RInitSmall \/ RInitLadder)

\* ------------------------------------------------------- process_document
\* lines 74-84: the background task starts; doc.status = PROCESSING
StartProcessing ==
    /\ cpc = "scheduled"
    /\ doc_status' = "processing"
    /\ runs' = runs + 1
    /\ chunks' = <<>>
    /\ embedded' = 0
    /\ rag_log' = "none"
    /\ cpc' = "processing"
    /\ UNCHANGED <<extracted_text, max_tokens, overlap_tokens, db_chunks, requests>>
    /\ UNCHANGED <<rvars, jvars>>

\* lines 86-162: download, conversion and extraction succeed;
\* doc.status = PROCESSED
Extract ==
    /\ cpc = "processing"
    /\ doc_status' = "processed"
    /\ cpc' = "extracted"
    /\ UNCHANGED <<extracted_text, max_tokens, overlap_tokens, chunks, db_chunks,
                   rag_log, embedded, runs, requests>>
    /\ UNCHANGED <<rvars, jvars>>

\* lines 213-234: a step of lines 86-122 raised; rollback, status FAILED, commit
ExtractFailed ==
    /\ cpc = "processing"
    /\ doc_status' = "failed"
    /\ cpc' = "committed"
    /\ UNCHANGED <<extracted_text, max_tokens, overlap_tokens, chunks, db_chunks,
                   rag_log, embedded, runs, requests>>
    /\ UNCHANGED <<rvars, jvars>>

\* lines 166-169: chunks = create_chunks(extracted_text); with no chunk the
\* run goes on to the commit of line 210
Chunk ==
    /\ cpc = "extracted"
    /\ ~create_chunks_raises(extracted_text)
    /\ chunks' = IF extracted_text # <<>> /\ strip(extracted_text) # <<>>
                 THEN create_chunks(extracted_text, max_tokens, overlap_tokens)
                 ELSE <<>>
    /\ cpc' = IF chunks' # <<>> THEN "embedding" ELSE "committed"
    /\ UNCHANGED <<extracted_text, max_tokens, overlap_tokens, db_chunks, rag_log,
                   doc_status, embedded, runs, requests>>
    /\ UNCHANGED <<rvars, jvars>>

\* lines 168 and 198-210: create_chunks raised; the log rag_indexing_failed is
\* added, the session is committed
ChunkFailed ==
    /\ cpc = "extracted"
    /\ create_chunks_raises(extracted_text)
    /\ rag_log' = "rag_indexing_failed"
    /\ cpc' = "committed"
    /\ UNCHANGED <<extracted_text, max_tokens, overlap_tokens, chunks, db_chunks,
                   doc_status, embedded, runs, requests>>
    /\ UNCHANGED <<rvars, jvars>>

\* embedding_service.py lines 51-66: one batch of up to _BATCH_SIZE texts is
\* embedded and appended to all_embeddings
EmbedBatch ==
    /\ cpc = "embedding"
    /\ embedded < Len(chunks)
    /\ embedded' = Min({embedded + _BATCH_SIZE, Len(chunks)})
    /\ UNCHANGED <<extracted_text, max_tokens, overlap_tokens, chunks, db_chunks,
                   rag_log, cpc, doc_status, runs, requests>>
    /\ UNCHANGED <<rvars, jvars>>

\* lines 175-210: generate_embeddings returned; one DocumentChunk is added per
\* chunk, the log rag_indexing_complete is added, the session is committed
Index ==
    /\ cpc = "embedding"
    /\ embedded = Len(chunks)
    /\ db_chunks' = db_chunks \o AddChunks(chunks, Len(chunks), runs)
    /\ rag_log' = "rag_indexing_complete"
    /\ cpc' = "committed"
    /\ UNCHANGED <<extracted_text, max_tokens, overlap_tokens, chunks, doc_status,
                   embedded, runs, requests>>
    /\ UNCHANGED <<rvars, jvars>>

\* The failed run keeping the chunks whose batches had been embedded
IndexFailed_Partial ==
    /\ cpc = "embedding"
    /\ embedded < Len(chunks)
    /\ db_chunks' = db_chunks \o AddChunks(chunks, embedded, runs)
    /\ rag_log' = "rag_indexing_failed"
    /\ cpc' = "committed"
    /\ UNCHANGED <<extracted_text, max_tokens, overlap_tokens, chunks,
                   doc_status, embedded, runs, requests>>
    /\ UNCHANGED <<rvars, jvars>>

\* lines 198-210: generate_embeddings raised (not configured, or a batch
\* failed); the log rag_indexing_failed is added, the session is committed
IndexFailed ==
    /\ cpc = "embedding"
    /\ embedded < Len(chunks)
    /\ rag_log' = "rag_indexing_failed"
    /\ cpc' = "committed"
    /\ UNCHANGED <<extracted_text, max_tokens, overlap_tokens, chunks, db_chunks,
                   doc_status, embedded, runs, requests>>
    /\ UNCHANGED <<rvars, jvars>>

\* api/documents.py lines 79-122: reprocess_document by the owner, the
\* document not being processed; status UPLOADED, commit, task scheduled
Reprocess ==
    /\ cpc = "committed"
    /\ requests > 0
    /\ doc_status # "processing"
    /\ doc_status' = "uploaded"
    /\ requests' = requests - 1
    /\ cpc' = "scheduled"
    /\ UNCHANGED <<extracted_text, max_tokens, overlap_tokens, chunks, db_chunks,
                   rag_log, embedded, runs>>
    /\ UNCHANGED <<rvars, jvars>>

\* ------------------------------------------------------- rag_search, steps
\* line 65: query_embedding = await generate_single_embedding(query)
Embed ==
    /\ rpc = "start"
    /\ embed_calls' = embed_calls + 1
    /\ rpc' = "embedded"
    /\ UNCHANGED <<store, request, rows, pool, reads, result>>
    /\ UNCHANGED <<cvars, jvars>>

\* line 65 raises; lines 226-228 return the error text
EmbedFailed ==
    /\ rpc = "start"
    /\ embed_calls' = embed_calls + 1
    /\ result' = [type |-> "str", kind |-> "error"]
    /\ rpc' = "returned"
    /\ UNCHANGED <<store, request, rows, pool, reads>>
    /\ UNCHANGED <<cvars, jvars>>

\* The strict pass issued without waiting for the embedding
StrictSearch_BeforeEmbed ==
    /\ rpc \in {"start", "embedded"}
    /\ \E r \in execute_query(documents, document_chunks,
                              base_where_clauses(user_id, is_admin, document_ids, filename),
                              DefaultLimit, TRUE) :
          /\ rows' = r.rows
          /\ pool' = r.pool
          /\ reads' = Append(reads, [pass |-> "strict", limit |-> DefaultLimit,
                                     use_threshold |-> TRUE, rows |-> r.rows])
    /\ rpc' = "strict_done"
    /\ UNCHANGED <<store, request, embed_calls, result>>
    /\ UNCHANGED <<cvars, jvars>>

\* lines 167-168: rows = await execute_query(strict_clauses, use_threshold=True)
StrictSearch ==
    /\ rpc = "embedded"
    /\ \E r \in execute_query(documents, document_chunks,
                              base_where_clauses(user_id, is_admin, document_ids, filename),
                              DefaultLimit, TRUE) :
          /\ rows' = r.rows
          /\ pool' = r.pool
          /\ reads' = Append(reads, [pass |-> "strict", limit |-> DefaultLimit,
                                     use_threshold |-> TRUE, rows |-> r.rows])
    /\ rpc' = "strict_done"
    /\ UNCHANGED <<store, request, embed_calls, result>>
    /\ UNCHANGED <<cvars, jvars>>

\* line 175: rows = await execute_query(base_where_clauses, limit=5, use_threshold=False)
FallbackSearch ==
    /\ rpc = "strict_done"
    /\ fallback_due(rows, document_ids, filename)
    /\ \E r \in execute_query(documents, document_chunks,
                              base_where_clauses(user_id, is_admin, document_ids, filename),
                              FallbackLimit, FALSE) :
          /\ rows' = r.rows
          /\ pool' = r.pool
          /\ reads' = Append(reads, [pass |-> "fallback", limit |-> FallbackLimit,
                                     use_threshold |-> FALSE, rows |-> r.rows])
    /\ rpc' = "fallback_done"
    /\ UNCHANGED <<store, request, embed_calls, result>>
    /\ UNCHANGED <<cvars, jvars>>

\* A failed read answered as if nothing had been found
SearchFailed_Empty ==
    /\ \/ rpc = "embedded"
       \/ rpc = "strict_done" /\ fallback_due(rows, document_ids, filename)
    /\ result' = [type |-> "str", kind |-> "nothing", hint |-> document_ids # <<>>]
    /\ rpc' = "returned"
    /\ UNCHANGED <<store, request, rows, pool, reads, embed_calls>>
    /\ UNCHANGED <<cvars, jvars>>

\* db.execute raises in either pass; lines 226-228 return the error text
SearchFailed ==
    /\ \/ rpc = "embedded"
       \/ rpc = "strict_done" /\ fallback_due(rows, document_ids, filename)
    /\ result' = [type |-> "str", kind |-> "error"]
    /\ rpc' = "returned"
    /\ UNCHANGED <<store, request, rows, pool, reads, embed_calls>>
    /\ UNCHANGED <<cvars, jvars>>

\* Nothing found, with the hint whenever any scope filter was given
ReturnNothing_HintAnyFilter ==
    /\ \/ rpc = "strict_done" /\ ~fallback_due(rows, document_ids, filename)
       \/ rpc = "fallback_done"
    /\ rows = <<>>
    /\ result' = [type |-> "str", kind |-> "nothing",
                  hint |-> is_filtered(document_ids, filename)]
    /\ rpc' = "returned"
    /\ UNCHANGED <<store, request, rows, pool, reads, embed_calls>>
    /\ UNCHANGED <<cvars, jvars>>

\* lines 178-196: nothing found, with the hint iff document_ids is non-empty
ReturnNothing ==
    /\ \/ rpc = "strict_done" /\ ~fallback_due(rows, document_ids, filename)
       \/ rpc = "fallback_done"
    /\ rows = <<>>
    /\ result' = [type |-> "str", kind |-> "nothing", hint |-> document_ids # <<>>]
    /\ rpc' = "returned"
    /\ UNCHANGED <<store, request, rows, pool, reads, embed_calls>>
    /\ UNCHANGED <<cvars, jvars>>

\* lines 198-224: the passages, similarity = 1 - row.distance
ReturnPassages ==
    /\ \/ rpc = "strict_done" /\ ~fallback_due(rows, document_ids, filename)
       \/ rpc = "fallback_done"
    /\ rows # <<>>
    /\ result' = [type |-> "str", kind |-> "passages",
                  passages |-> [i \in 1..Len(rows) |->
                                  [chunk_id |-> rows[i].chunk_id,
                                   document_id |-> rows[i].document_id,
                                   filename |-> rows[i].filename,
                                   similarity |-> 100 - rows[i].distance]]]
    /\ rpc' = "returned"
    /\ UNCHANGED <<store, request, rows, pool, reads, embed_calls>>
    /\ UNCHANGED <<cvars, jvars>>

\* ------------------------------------- runs of process_document, one document
\* The document is stored with status uploaded.  Either upload_documents has
\* committed it and scheduled a background task (api/documents.py lines
\* 59-64), or a pending job for it waits in document_processing_jobs.
JInit ==
    /\ Idle_C
    /\ Idle_R
    /\ d_status = "uploaded"
    /\ row_lock = 0
    /\ chunk_sets = <<>>
    /\ overlaps = {}
    /\ req = NoRequest
    /\ replies = <<>>
    /\ to_come \in 0..(MaxTasks - 1)
    /\ wpc = "idle"
    /\ \/ /\ job = NoJob
          /\ task = [r \in Runs |-> IF r = 1 THEN [pc |-> "scheduled", seen |-> "none"]
                                    ELSE NoRun]
       \/ /\ job = [status |-> "pending", attempts |-> 0]
          /\ task = [r \in Runs |-> NoRun]

\* The run has loaded the document and has neither returned nor raised
InFlight(r) == task[r].pc \in {"loaded", "processing", "rolledback"}

\* document_service.py lines 74-81: the run starts and loads the document, as
\* committed
TaskStart(r) ==
    /\ task[r].pc = "scheduled"
    /\ task' = [task EXCEPT ![r] = [pc |-> "loaded", seen |-> d_status]]
    /\ overlaps' = overlaps \cup {{r, s} : s \in {x \in Runs \ {r} : InFlight(x)}}
    /\ UNCHANGED <<d_status, row_lock, chunk_sets, req, replies, to_come, job, wpc>>
    /\ UNCHANGED <<cvars, rvars>>

\* lines 83-84: doc.status = PROCESSING and flush, no commit.  The UPDATE is
\* sent unless the loaded status was PROCESSING already; it waits while another
\* transaction has written the row, and its row version stays invisible to the
\* other sessions until the commit.
TaskFlush(r) ==
    /\ task[r].pc = "loaded"
    /\ task[r].seen # "processing" => row_lock = 0
    /\ row_lock' = IF task[r].seen # "processing" THEN r ELSE row_lock
    /\ task' = [task EXCEPT ![r].pc = "processing"]
    /\ UNCHANGED <<d_status, chunk_sets, overlaps, req, replies, to_come, job, wpc>>
    /\ UNCHANGED <<cvars, rvars>>

\* lines 86-210: extraction succeeds, status PROCESSED, the chunks are added
\* (indexed) or the RAG step failed, commit
TaskCommit(r) ==
    /\ task[r].pc = "processing"
    /\ row_lock \in {0, r}
    /\ \E indexed \in BOOLEAN :
          chunk_sets' = IF indexed THEN Append(chunk_sets, r) ELSE chunk_sets
    /\ d_status' = "processed"
    /\ row_lock' = 0
    /\ task' = [task EXCEPT ![r].pc = "finished"]
    /\ UNCHANGED <<overlaps, req, replies, to_come, job, wpc>>
    /\ UNCHANGED <<cvars, rvars>>

\* lines 213-214: a step raised; rollback
TaskRollback(r) ==
    /\ task[r].pc = "processing"
    /\ row_lock' = IF row_lock = r THEN 0 ELSE row_lock
    /\ task' = [task EXCEPT ![r].pc = "rolledback"]
    /\ UNCHANGED <<d_status, chunk_sets, overlaps, req, replies, to_come, job, wpc>>
    /\ UNCHANGED <<cvars, rvars>>

\* lines 220-234: UPDATE status = FAILED, the log, commit; process_document
\* returns without raising
TaskMarkFailed(r) ==
    /\ task[r].pc = "rolledback"
    /\ row_lock = 0
    /\ d_status' = "failed"
    /\ task' = [task EXCEPT ![r].pc = "finished"]
    /\ UNCHANGED <<row_lock, chunk_sets, overlaps, req, replies, to_come, job, wpc>>
    /\ UNCHANGED <<cvars, rvars>>

\* process_document raises: the SELECT of line 74, outside the try, or a
\* statement of the handler of lines 213-234 fails
TaskRaise(r) ==
    /\ task[r].pc \in {"scheduled", "rolledback"}
    /\ task' = [task EXCEPT ![r].pc = "raised"]
    /\ UNCHANGED <<d_status, row_lock, chunk_sets, overlaps, req, replies, to_come, job, wpc>>
    /\ UNCHANGED <<cvars, rvars>>

\* api/documents.py lines 87-105: reprocess_document by the owner loads the
\* document as committed and answers 409 if its status is PROCESSING
ReprocessRead ==
    /\ req.pc = "none"
    /\ to_come > 0
    /\ \E r \in Tasks : task[r].pc = "none"
    /\ to_come' = to_come - 1
    /\ IF d_status = "processing"
       THEN /\ replies' = Append(replies, [code |-> 409,
                                           in_flight |-> \E r \in Runs : InFlight(r)])
            /\ req' = req
       ELSE /\ req' = [pc |-> "checked", seen |-> d_status,
                       in_flight |-> \E r \in Runs : InFlight(r)]
            /\ replies' = replies
    /\ UNCHANGED <<d_status, row_lock, task, chunk_sets, overlaps, job, wpc>>
    /\ UNCHANGED <<cvars, rvars>>

\* api/documents.py lines 107-122: status UPLOADED and the extraction fields
\* cleared, commit, the task scheduled, answer 202.  The commit sends an UPDATE
\* only if the loaded document differs from the reset one, and then waits while
\* another transaction has written the row.
ReprocessCommit ==
    /\ req.pc = "checked"
    /\ req.seen # "uploaded" => row_lock = 0
    /\ d_status' = IF req.seen # "uploaded" THEN "uploaded" ELSE d_status
    /\ LET r == Min({x \in Tasks : task[x].pc = "none"})
       IN  task' = [task EXCEPT ![r] = [pc |-> "scheduled", seen |-> "none"]]
    /\ replies' = Append(replies, [code |-> 202, in_flight |-> req.in_flight])
    /\ req' = NoRequest
    /\ UNCHANGED <<row_lock, chunk_sets, overlaps, to_come, job, wpc>>
    /\ UNCHANGED <<cvars, rvars>>

\* WorkerService(max_retries=3)
max_retries == 3

\* worker_service.py lines 42-69: the pending job is picked; job PROCESSING,
\* document PROCESSING, commit
PickJob ==
    /\ wpc = "idle"
    /\ job.status = "pending"
    /\ row_lock = 0
    /\ job' = [job EXCEPT !.status = "processing"]
    /\ d_status' = "processing"
    /\ task' = [task EXCEPT ![WorkerRun] = [pc |-> "scheduled", seen |-> "none"]]
    /\ wpc' = "picked"
    /\ UNCHANGED <<row_lock, chunk_sets, overlaps, req, replies, to_come>>
    /\ UNCHANGED <<cvars, rvars>>

\* worker_service.py lines 73-109: success is set iff process_document
\* returned without raising; the job is finalized
FinalizeJob ==
    /\ wpc = "picked"
    /\ task[WorkerRun].pc \in {"finished", "raised"}
    /\ LET success == task[WorkerRun].pc = "finished"
       IN  IF success
           THEN /\ job' = [job EXCEPT !.status = "completed"]
                /\ UNCHANGED d_status
           ELSE IF job.attempts + 1 >= max_retries
           THEN /\ row_lock = 0
                /\ job' = [status |-> "failed", attempts |-> job.attempts + 1]
                /\ d_status' = "failed"
           ELSE /\ job' = [status |-> "pending", attempts |-> job.attempts + 1]
                /\ UNCHANGED d_status
    /\ task' = [task EXCEPT ![WorkerRun] = NoRun]
    /\ wpc' = "idle"
    /\ UNCHANGED <<row_lock, chunk_sets, overlaps, req, replies, to_come>>
    /\ UNCHANGED <<cvars, rvars>>

JNext ==
    \/ \E r \in Runs : TaskStart(r)
    \/ \E r \in Runs : TaskFlush(r)
    \/ \E r \in Runs : TaskCommit(r)
    \/ \E r \in Runs : TaskRollback(r)
    \/ \E r \in Runs : TaskMarkFailed(r)
    \/ \E r \in Runs : TaskRaise(r)
    \/ ReprocessRead
    \/ ReprocessCommit
    \/ PickJob
    \/ FinalizeJob

CNext ==
    \/ StartProcessing
    \/ Extract
    \/ ExtractFailed
    \/ Chunk
    \/ ChunkFailed
    \/ EmbedBatch
    \/ Index
    \/ IndexFailed
    \/ Reprocess

RNext ==
    \/ Embed
    \/ EmbedFailed
    \/ StrictSearch
    \/ FallbackSearch
    \/ SearchFailed
    \/ ReturnNothing
    \/ ReturnPassages

SpecChunk == CInit /\ [][CNext]_vars

SpecRag == RInit /\ [][RNext]_vars

SpecJobs == JInit /\ [][JNext]_vars

\* ===================================================================== claims
\* create_chunks has returned in the current run
Chunked ==
    /\ cpc = "embedding" \/ (cpc = "committed" /\ doc_status = "processed")
    /\ ~create_chunks_raises(extracted_text)

\* The rows of document_chunks that run r added
RECURSIVE RunRows(_, _)
RunRows(tbl, r) ==
    IF tbl = <<>> THEN <<>>
    ELSE (IF tbl[1].created_at = r THEN <<tbl[1]>> ELSE <<>>) \o RunRows(Tail(tbl), r)

\* ------------------------------------------------------------------------ C1
\* The text of a chunk without its continuation prefix
Body(c) ==
    IF c.content # <<>> /\ c.content[1] = "["
    THEN LET close == Min({i \in 1..Len(c.content) : c.content[i] = "]"})
         IN  SubSeq(c.content, close + 3, Len(c.content))
    ELSE c.content

\* The chunk is one single sentence that by itself exceeds the budget
SingleOversizedSentence(c, mx) ==
    /\ Len(StripNonBlank(SplitParagraphs(Body(c)))) = 1
    /\ Len(SplitSentences(Body(c))) = 1
    /\ _count_tokens(Body(c)) > mx

\* C1: every chunk create_chunks returns has token_count <= max_tokens, unless
\* it consists of one single sentence that by itself exceeds max_tokens; the
\* count is that of the stored content, overlap and prefix included.
C1_TokenBound ==
    Chunked =>
        \A j \in 1..Len(chunks) :
            \/ chunks[j].token_count <= max_tokens
            \/ SingleOversizedSentence(chunks[j], max_tokens)

\* ----------------------------------------------------------------------- C10
\* Number of chunks the section yields
SectionChunkCount(section, mx, ov) ==
    IF _count_tokens(section) <= mx THEN 1 ELSE Len(_split_long_text(section, mx, ov))

RECURSIVE ChunksBefore(_, _, _, _)
ChunksBefore(sections, k, mx, ov) ==
    IF k <= 1 THEN 0
    ELSE ChunksBefore(sections, k - 1, mx, ov) + SectionChunkCount(sections[k - 1], mx, ov)

\* C10: the chunks of one create_chunks call carry chunk_index 0, 1, ..., n-1
\* in output order, the chunks of section k coming after those of the sections
\* before it, and process_document stores each chunk under that same index.
C10_ChunkIndex ==
    LET sections == _split_into_sections(extracted_text)
    IN  Chunked =>
          /\ \A j \in 1..Len(chunks) : chunks[j].chunk_index = j - 1
          /\ \A k \in 1..Len(sections) :
                \A i \in 1..SectionChunkCount(sections[k], max_tokens, overlap_tokens) :
                   LET j == ChunksBefore(sections, k, max_tokens, overlap_tokens) + i
                   IN  /\ j <= Len(chunks)
                       /\ chunks[j].chunk_index = j - 1
                       /\ chunks[j].original_section_start
                            = take_chars(IF chunks[j].sub_chunk = -1 THEN sections[k]
                                         ELSE first_line(sections[k]), 80)
                       /\ chunks[j].sub_chunk \in {-1, i - 1}
          /\ LET added == RunRows(db_chunks, runs)
             IN  /\ \A p \in 1..Len(added) :
                       /\ added[p].chunk_index = p - 1
                       /\ added[p].content = chunks[p].content
                 /\ (rag_log = "rag_indexing_complete" => Len(added) = Len(chunks))

\* A text of a whole section and a split section, indexed and stored
C10_Witness ==
    /\ cpc = "committed"
    /\ rag_log = "rag_indexing_complete"
    /\ Len(RunRows(db_chunks, runs)) >= 3
    /\ \E j \in 1..Len(chunks) : chunks[j].sub_chunk = -1
    /\ \E j \in 1..Len(chunks) : chunks[j].sub_chunk >= 1 /\ chunks[j].chunk_index > 1

\* ----------------------------------------------------------------------- C11
\* The units of the text in reading order: a section that fits the budget is one
\* unit; a split section gives one unit per paragraph, and one unit per sentence
\* of a paragraph that exceeds the budget.
RECURSIVE ParagraphUnits(_, _, _)
ParagraphUnits(ps, k, mx) ==
    IF ps = <<>> THEN <<>>
    ELSE LET us == IF _count_tokens(ps[1]) > mx THEN SplitSentences(ps[1]) ELSE <<ps[1]>>
         IN  [i \in 1..Len(us) |-> [sec |-> k, text |-> us[i]]]
             \o ParagraphUnits(Tail(ps), k, mx)

RECURSIVE SectionUnits(_, _, _)
SectionUnits(sections, k, mx) ==
    IF k > Len(sections) THEN <<>>
    ELSE (IF _count_tokens(sections[k]) <= mx
          THEN <<[sec |-> k, text |-> sections[k]]>>
          ELSE ParagraphUnits(StripNonBlank(SplitParagraphs(sections[k])), k, mx))
         \o SectionUnits(sections, k + 1, mx)

\* Chunk c is the units p..q after k repeated units: after an optional
\* continuation prefix, a run of units of one section joined by blank lines or
\* by blanks, of which the first k repeat units of the chunk before it and at
\* least one is new.
ChunkIsUnits(c, U, p, k, q, sections) ==
    LET us == [i \in 1..(q - p + k + 1) |-> U[p - k + i - 1].text]
        pre == heading_prefix(first_line(sections[U[p].sec]))
        texts == {join(<<"nl", "nl">>, us), join(<<>>, us)}
    IN  /\ \A i \in (p - k)..q : U[i].sec = U[p].sec
        /\ c.content \in texts \cup {pre \o x : x \in texts}

\* Chunks j.. are, in order, the units from one of the positions in P on up to
\* the last unit
RECURSIVE Reconstructs(_, _, _, _, _)
Reconstructs(cs, j, U, P, sections) ==
    IF j > Len(cs) THEN Len(U) + 1 \in P
    ELSE LET n == Len(Body(cs[j]))   \* a unit has at least one symbol
         IN  Reconstructs(cs, j + 1, U,
                          {q + 1 : q \in {q \in 1..Len(U) :
                                            \E p \in P : \E k \in 0..(p - 1) :
                                               /\ p <= q
                                               /\ q - p + k + 1 <= n
                                               /\ ChunkIsUnits(cs[j], U, p, k, q, sections)}},
                          sections)

NonSpace(t) == Cardinality({i \in 1..Len(t) : ~IsSpace(t[i])})

RECURSIVE BodySymbols(_, _)
BodySymbols(cs, n) ==
    IF n = 0 THEN 0 ELSE BodySymbols(cs, n - 1) + NonSpace(Body(cs[n]))

\* C11: create_chunks drops no content.  Without continuation prefixes and
\* overlap repetitions the chunks are, in order, the sections of the text, the
\* paragraphs of each split section and the sentences of each paragraph split
\* by sentences; every non-blank section yields at least one chunk.
C11_Coverage ==
    LET sections == _split_into_sections(extracted_text)
    IN  Chunked /\ strip(extracted_text) # <<>> =>
          Reconstructs(chunks, 1, SectionUnits(sections, 1, max_tokens), {1}, sections)

\* Two sections, one of them split, with a unit repeated as overlap
C11_Witness ==
    /\ Chunked
    /\ Len(_split_into_sections(extracted_text)) >= 2
    /\ \E j \in 1..Len(chunks) : chunks[j].sub_chunk >= 1
    /\ BodySymbols(chunks, Len(chunks)) > NonSpace(extracted_text)

\* ----------------------------------------------------------------------- C12
\* C12: whenever a processing run of the document has ended, no two stored
\* chunks of the document share a chunk_index, and after a run that indexed the
\* document the stored chunks are those of that run only: no chunk of an
\* earlier run survives a reprocessing.
C12_LatestRunOnly ==
    cpc = "committed" =>
        /\ \A p, q \in 1..Len(db_chunks) :
              p # q => db_chunks[p].chunk_index # db_chunks[q].chunk_index
        /\ (rag_log = "rag_indexing_complete" =>
              \A p \in 1..Len(db_chunks) : db_chunks[p].created_at = runs)

\* ------------------------------------------------- rag_search: common terms
AfterPass == rpc \in {"strict_done", "fallback_done"}

LastRead == reads[Len(reads)]

Clauses == base_where_clauses(user_id, is_admin, document_ids, filename)

\* The two channels of the last pass in full, before their LIMIT
FullSemantic == VectorRows(documents, document_chunks, Clauses, LastRead.use_threshold)
FullLexical == KeywordRows(documents, document_chunks, Clauses)

RowIds(rs) == {rs[i].chunk_id : i \in 1..Len(rs)}

\* document status is processed AND (caller is admin OR caller is the owner)
VisibleToCaller(c) ==
    LET d == documents[document_chunks[c].document_id]
    IN  d.status = "processed" /\ (is_admin \/ d.user_id = user_id)

\* ------------------------------------------------------------------------ C2
\* C2: for a non-admin caller every row of the strict pass and of the fallback
\* pass, and every returned passage, is of a document owned by the caller.
C2_OwnerScope ==
    ~is_admin =>
       /\ \A n \in 1..Len(reads) : \A i \in 1..Len(reads[n].rows) :
             documents[reads[n].rows[i].document_id].user_id = user_id
       /\ \A i \in 1..Len(rows) : documents[rows[i].document_id].user_id = user_id
       /\ result.kind = "passages" =>
             \A i \in 1..Len(result.passages) :
                documents[result.passages[i].document_id].user_id = user_id

\* Passages were returned while a processed document of another user holds a
\* chunk that matches the query in both channels
C2_Witness ==
    /\ ~is_admin
    /\ result.kind = "passages"
    /\ \E c \in DOMAIN document_chunks :
          LET d == documents[document_chunks[c].document_id]
          IN  /\ d.user_id # user_id
              /\ d.status = "processed"
              /\ document_chunks[c].ts > 0
              /\ document_chunks[c].distance < _MAX_DISTANCE

\* ------------------------------------------------------------------------ C3
VisibleChunks ==
    [c \in {x \in DOMAIN document_chunks : VisibleToCaller(x)} |-> document_chunks[c]]

\* C3: a pass over the chunk store and the same pass over the store without
\* the chunks invisible to the caller have the same outcomes (rows, order,
\* ranks and scores), and the pass taken is one of them.
C3_InvisibleNoInfluence ==
    AfterPass =>
       /\ execute_query(documents, document_chunks, Clauses,
                        LastRead.limit, LastRead.use_threshold)
            = execute_query(documents, VisibleChunks, Clauses,
                            LastRead.limit, LastRead.use_threshold)
       /\ [pool |-> pool, rows |-> rows]
            \in execute_query(documents, VisibleChunks, Clauses,
                              LastRead.limit, LastRead.use_threshold)

\* A returned chunk is preceded in both channels by a chunk the caller cannot see
C3_Witness ==
    /\ AfterPass
    /\ \E i \in 1..Len(rows) : \E c \in DOMAIN document_chunks :
          /\ ~VisibleToCaller(c)
          /\ document_chunks[c].distance < document_chunks[rows[i].chunk_id].distance
          /\ document_chunks[c].ts > document_chunks[rows[i].chunk_id].ts
          /\ rows[i].semantic_rank = 1
          /\ rows[i].keyword_rank = 1

\* ------------------------------------------------------------------------ C4
\* sub occurs in s, letter case ignored
Contains(s, sub) ==
    \E i \in 0..(Len(s) - Len(sub)) :
       \A j \in 1..Len(sub) : Lower(s[i + j]) = Lower(sub[j])

\* C4: with a well-formed id list every row's document_id is in the list, with
\* a filename every row's file name contains it, with both every row meets
\* both; in the strict pass and in the fallback pass.
C4_ScopeFilters ==
    \A n \in 1..Len(reads) : \A i \in 1..Len(reads[n].rows) :
       LET r == reads[n].rows[i]
       IN  /\ (strip(document_ids) # <<>> /\ parse_ids(document_ids).ok
                 /\ parse_ids(document_ids).ids # {})
               => r.document_id \in parse_ids(document_ids).ids
           /\ strip(filename) # <<>> => Contains(r.filename, strip(filename))

\* ------------------------------------------------------------------------ C5
ScopeFilterGiven == strip(document_ids) # <<>> \/ strip(filename) # <<>>

\* C5: the fallback pass (no threshold, limit 5) is run only as the second
\* read, after a strict pass of zero rows, with a scope filter given; after a
\* strict pass with rows there is no further read and the rows and the
\* returned passages are those of the strict pass.
C5_FallbackGating ==
    /\ \A n \in 1..Len(reads) :
          reads[n].pass = "fallback" =>
             /\ n = 2
             /\ reads[1].pass = "strict"
             /\ reads[1].rows = <<>>
             /\ ScopeFilterGiven
             /\ reads[n].limit = 5
             /\ ~reads[n].use_threshold
    /\ (Len(reads) >= 1 /\ reads[1].rows # <<>>) =>
          /\ Len(reads) = 1
          /\ rows = reads[1].rows
          /\ rpc = "returned" =>
                /\ result.kind = "passages"
                /\ [i \in 1..Len(result.passages) |-> result.passages[i].chunk_id]
                     = [i \in 1..Len(rows) |-> reads[1].rows[i].chunk_id]

\* A strict pass with rows was returned although a scope filter was given
C5_Witness ==
    /\ rpc = "returned"
    /\ ScopeFilterGiven
    /\ Len(reads) = 1
    /\ result.kind = "passages"

\* ------------------------------------------------------------------------ C6
\* 1/(60 + rank) for a chunk of the channel, 0 for a chunk absent from it
Term(present, rank) == IF present THEN <<1, 60 + rank>> ELSE <<0, 1>>

\* C6: the fused score of every joined row is 1/(60 + semantic_rank)
\* + 1/(60 + lexical_rank) over the channels the chunk has a row in, its ranks
\* being its RANK() in those channels; an absent channel adds 0.
C6_FusedScore ==
    AfterPass =>
       \A r \in pool :
          LET c == r.chunk_id
              inV == r.semantic_rank # MissingRank
              inK == r.keyword_rank # MissingRank
              sr == 1 + Cardinality({d \in FullSemantic :
                        document_chunks[d].distance < document_chunks[c].distance})
              kr == 1 + Cardinality({d \in FullLexical :
                        document_chunks[d].ts > document_chunks[c].ts})
          IN  /\ inV \/ inK
              /\ inV => c \in FullSemantic /\ r.semantic_rank = sr
              /\ inK => c \in FullLexical /\ r.keyword_rank = kr
              /\ FracEq(r.rrf_score, FracAdd(Term(inV, sr), Term(inK, kr)))

\* A returned row with a rank in one channel only
C6_Witness ==
    /\ AfterPass
    /\ \E i \in 1..Len(rows) :
          /\ rows[i].semantic_rank = MissingRank
          /\ rows[i].keyword_rank = 2

\* ------------------------------------------------------------------------ C7
RECURSIVE IndexOf(_, _)
IndexOf(rs, r) == IF rs = <<>> THEN 0 ELSE IF rs[Len(rs)] = r THEN Len(rs)
                  ELSE IndexOf(SubSeq(rs, 1, Len(rs) - 1), r)

FirstInBoth(r) == r.semantic_rank = 1 /\ r.keyword_rank = 1

FirstInOneOnly(r) ==
    \/ r.semantic_rank = 1 /\ r.keyword_rank = MissingRank
    \/ r.keyword_rank = 1 /\ r.semantic_rank = MissingRank

\* C7: a chunk first in both channels scores strictly higher than a chunk
\* first in one channel and absent from the other, and comes before it.
C7_FusionMonotone ==
    AfterPass =>
       \A a \in pool : \A b \in pool :
          (FirstInBoth(b) /\ FirstInOneOnly(a)) =>
             /\ FracLess(a.rrf_score, b.rrf_score)
             /\ a \in {rows[i] : i \in 1..Len(rows)} =>
                   /\ b \in {rows[i] : i \in 1..Len(rows)}
                   /\ IndexOf(rows, b) < IndexOf(rows, a)

\* Both kinds of chunk are returned by one pass
C7_Witness ==
    /\ AfterPass
    /\ \E i \in 1..Len(rows) : FirstInBoth(rows[i])
    /\ \E i \in 1..Len(rows) : FirstInOneOnly(rows[i])

\* ------------------------------------------------------------------------ C8
\* C8: the rows are in descending order of fused score, rows of equal score in
\* ascending order of semantic_rank and then of lexical rank.
C8_TieBreak ==
    AfterPass =>
       \A i \in 1..(Len(rows) - 1) :
          /\ ~FracLess(rows[i].rrf_score, rows[i + 1].rrf_score)
          /\ FracEq(rows[i].rrf_score, rows[i + 1].rrf_score) =>
                \/ rows[i].semantic_rank < rows[i + 1].semantic_rank
                \/ /\ rows[i].semantic_rank = rows[i + 1].semantic_rank
                   /\ rows[i].keyword_rank <= rows[i + 1].keyword_rank

\* ------------------------------------------------------------------------ C9
\* The fused score of a chunk from its ranks in the two full channels
FullScore(c) ==
    FracAdd(Term(c \in FullSemantic,
                 1 + Cardinality({d \in FullSemantic :
                      document_chunks[d].distance < document_chunks[c].distance})),
            Term(c \in FullLexical,
                 1 + Cardinality({d \in FullLexical :
                      document_chunks[d].ts > document_chunks[c].ts})))

MinOf(a, b) == IF a <= b THEN a ELSE b

\* C9 as claimed: the rows are the first top_n of the fused ranking over every
\* chunk of either channel, whatever its rank in each channel.
C9_TopOfFullRanking ==
    AfterPass =>
       /\ Len(rows) = MinOf(LastRead.limit, Cardinality(FullSemantic \cup FullLexical))
       /\ \A c \in (FullSemantic \cup FullLexical) \ RowIds(rows) :
             \A i \in 1..Len(rows) : ~FracLess(FullScore(rows[i].chunk_id), FullScore(c))

\* C9 as amended: each channel keeps its first 2 * top_n rows, a chunk beyond
\* them counting as absent from that channel, and the rows are the first top_n
\* of the ranking by fused score over the chunks the channels kept.
C9_TopOfKeptRows ==
    AfterPass =>
       LET n == LastRead.limit
           VL == {r.chunk_id : r \in {q \in pool : q.semantic_rank # MissingRank}}
           KL == {r.chunk_id : r \in {q \in pool : q.keyword_rank # MissingRank}}
       IN  /\ VL \subseteq FullSemantic
           /\ Cardinality(VL) = MinOf(2 * n, Cardinality(FullSemantic))
           /\ \A c \in VL : \A d \in FullSemantic \ VL :
                 document_chunks[c].distance <= document_chunks[d].distance
           /\ KL \subseteq FullLexical
           /\ Cardinality(KL) = MinOf(2 * n, Cardinality(FullLexical))
           /\ \A c \in KL : \A d \in FullLexical \ KL :
                 document_chunks[c].ts >= document_chunks[d].ts
           /\ Len(rows) = MinOf(n, Cardinality(pool))
           /\ Cardinality(RowIds(rows)) = Len(rows)
           /\ \A i \in 1..Len(rows) : rows[i] \in pool
           /\ \A p \in pool : p.chunk_id \notin RowIds(rows) =>
                 \A i \in 1..Len(rows) : ~FracLess(rows[i].rrf_score, p.rrf_score)

\* Both cuts happen: a channel holds more than 2 * top_n chunks and the joined
\* rows are more than top_n
C9_Witness ==
    /\ AfterPass
    /\ Cardinality(FullSemantic) > 2 * LastRead.limit
    /\ Cardinality(FullLexical) > 0
    /\ Cardinality(pool) > LastRead.limit
    /\ Len(rows) = LastRead.limit

\* ----------------------------------------------------------------------- C13
\* The comma-separated tokens of an id list, brackets removed, blanks stripped
IdTokens(s) ==
    LET toks == split_comma(remove_char(remove_char(s, "["), "]"))
    IN  {strip(toks[i]) : i \in 1..Len(toks)} \ {<<>>}

NumericIds(s) == {int(x) : x \in {y \in IdTokens(s) : IsInt(y)}}

InvalidTokens(s) == \E x \in IdTokens(s) : ~IsInt(x)

\* document_ids mixes numeric and non-numeric tokens
MixedIds == InvalidTokens(document_ids) /\ NumericIds(document_ids) # {}

\* The rows of the last pass are rows the same pass may produce for the call
\* with document_ids d
SamePassWith(d) ==
    [pool |-> pool, rows |-> rows]
        \in execute_query(documents, document_chunks,
                          base_where_clauses(user_id, is_admin, d, filename),
                          LastRead.limit, LastRead.use_threshold)

\* C13 as stated: with an id list that mixes numeric and non-numeric tokens
\* only the non-numeric tokens are dropped; every returned row belongs to a
\* document named by one of the numeric ids.
C13_OnlyInvalidDropped ==
    MixedIds /\ AfterPass => \A i \in 1..Len(rows) : rows[i].document_id \in NumericIds(document_ids)

\* C13: with an id list that holds a non-numeric token the whole id filter is
\* dropped, its numeric ids included: no IN clause is built and each pass
\* returns what it returns for the same call without document_ids.
C13_WholeFilterDropped ==
    InvalidTokens(document_ids) =>
        /\ Clauses.ids = {}
        /\ (AfterPass => SamePassWith(<<>>))

\* "x,2" was given and a passage of a document other than 2 is returned
C13_Witness ==
    /\ MixedIds
    /\ rpc = "returned"
    /\ result.kind = "passages"
    /\ \E i \in 1..Len(rows) : rows[i].document_id \notin NumericIds(document_ids)

\* ----------------------------------------------------------------------- C14
\* The row satisfies the conditions of the call other than the id list
OtherConstraints(r) ==
    LET d == documents[r.document_id]
    IN  /\ d.status = "processed"
        /\ (~is_admin => d.user_id = user_id)
        /\ (strip(filename) # <<>> =>
               ILIKE(d.filename, <<"%">> \o strip(filename) \o <<"%">>))

\* C14: a malformed document_ids does not make the call fail.  The strict pass
\* has clauses to run with, a call whose reads were all made returns passages
\* or the nothing-found text, and the clauses other than the id list are those
\* of the call without document_ids: every row is of a processed document, of
\* the caller when the caller is no admin, with a file name passing the
\* filename filter.
C14_MalformedIdsRecovered ==
    InvalidTokens(document_ids) =>
        /\ Clauses = base_where_clauses(user_id, is_admin, <<>>, filename)
        /\ (rpc = "embedded" =>
               execute_query(documents, document_chunks, Clauses, DefaultLimit, TRUE) # {})
        /\ (rpc = "returned" /\ Len(reads) >= 1
               /\ (LastRead.rows # <<>> \/ Len(reads) = 2) =>
               result.kind \in {"passages", "nothing"})
        /\ (AfterPass => \A i \in 1..Len(rows) : OtherConstraints(rows[i]))
        /\ (rpc = "returned" /\ result.kind = "passages" =>
               \A i \in 1..Len(result.passages) : OtherConstraints(result.passages[i]))

\* A non-admin call with a malformed id list and a file name returned passages
\* while the store holds a chunk that the file name excludes
C14_Witness ==
    /\ InvalidTokens(document_ids)
    /\ strip(filename) # <<>>
    /\ ~is_admin
    /\ rpc = "returned"
    /\ result.kind = "passages"
    /\ \E c \in DOMAIN document_chunks :
          ~ILIKE(documents[document_chunks[c].document_id].filename,
                 <<"%">> \o strip(filename) \o <<"%">>)

\* ----------------------------------------------------------------------- C15
\* C15: a call makes one embedding call, and makes it first: a store read is
\* made only after the embedding call has returned, a call whose embedding
\* failed returns with no read, a returned call has made exactly one embedding
\* call; there are at most two reads, the strict pass and then the fallback
\* pass, and no step writes to the store.
C15_CallOrder ==
    [][/\ embed_calls' <= 1
       /\ (embed_calls' # embed_calls => rpc = "start" /\ reads = <<>>)
       /\ (reads' # reads =>
              /\ embed_calls = 1
              /\ rpc \in {"embedded", "strict_done"}
              /\ Len(reads') = Len(reads) + 1
              /\ reads'[Len(reads')].pass = (IF reads = <<>> THEN "strict" ELSE "fallback"))
       /\ Len(reads') <= 2
       /\ (rpc = "start" /\ rpc' = "returned" => reads' = <<>> /\ result'.kind = "error")
       /\ (rpc' = "returned" => embed_calls' = 1)
       /\ store' = store]_vars

\* A call returned after its embedding call and two reads
C15_Witness ==
    /\ rpc = "returned"
    /\ embed_calls = 1
    /\ Len(reads) = 2
    /\ reads[1].pass = "strict"
    /\ reads[2].pass = "fallback"

\* ----------------------------------------------------------------------- C16
\* The step is the return after a failed embedding call or a failed read
FailureReturn ==
    /\ rpc' = "returned"
    /\ \/ rpc \in {"start", "embedded"}
       \/ rpc = "strict_done" /\ ScopeFilterGiven /\ rows = <<>>

\* C16 as stated: a failure of the embedding call or of a read is returned as
\* a value of a failure type, other than the type of a ranked list and of the
\* nothing-found outcome.
C16_TypedFailure ==
    [][FailureReturn => result'.kind = "error" /\ result'.type # "str"]_vars

\* C16: a failure of the embedding call or of a read is returned as a string
\* like the other outcomes, told apart by its opening words only; it is never
\* the nothing-found text and carries no passage.
C16_FailureText ==
    [][FailureReturn => result' = [type |-> "str", kind |-> "error"]]_vars

\* The fallback read failed after a strict pass of zero rows
C16_Witness ==
    /\ rpc = "returned"
    /\ result.kind = "error"
    /\ Len(reads) = 1
    /\ reads[1].rows = <<>>

\* ----------------------------------------------------------------------- C17
\* The call ended its reads with zero rows
EndedEmpty ==
    /\ rpc = "returned"
    /\ Len(reads) >= 1
    /\ LastRead.rows = <<>>
    /\ (ScopeFilterGiven => Len(reads) = 2)

\* C17: a call that ends with zero rows, after the fallback pass when one was
\* due, returns the nothing-found text and no error, and only such a call
\* does; the text holds the guidance on hallucinated ids iff the call was given
\* a non-empty document_ids.
C17_NothingFound ==
    /\ EndedEmpty =>
          /\ result.kind = "nothing"
          /\ (result.hint <=> document_ids # <<>>)
    /\ (rpc = "returned" /\ result.kind = "nothing" => EndedEmpty)

\* Nothing found after the fallback pass of a call with an id list
C17_Witness ==
    /\ EndedEmpty
    /\ Len(reads) = 2
    /\ document_ids # <<>>
    /\ result.kind = "nothing"
    /\ result.hint

\* ----------------------------------------------------------------------- C18
\* The run that just ended failed in generate_embeddings
EmbeddingFailed == cpc = "committed" /\ rag_log = "rag_indexing_failed" /\ chunks # <<>>

\* C18 as stated: a failure of the embedding collaborator is fatal to the
\* indexing call; the document is not reported as processed and no chunk of
\* the document is persisted.
C18_EmbeddingFatal ==
    EmbeddingFailed => doc_status # "processed" /\ db_chunks = <<>>

\* C18: a failure of the embedding collaborator, before the first batch or in
\* a later one, does not fail process_document: the run is committed with the
\* document processed and the log rag_indexing_failed, and no chunk of the run
\* is persisted, whatever number of batches had been embedded.
C18_EmbeddingNotFatal ==
    EmbeddingFailed =>
        /\ doc_status = "processed"
        /\ embedded < Len(chunks)
        /\ RunRows(db_chunks, runs) = <<>>

\* The second batch failed after the first had been embedded, in a run that
\* reprocessed an indexed document
C18_Witness ==
    /\ EmbeddingFailed
    /\ embedded = _BATCH_SIZE
    /\ runs = 2
    /\ db_chunks # <<>>

\* ----------------------------------------------------------------------- C19
\* C19: create_chunks raises for no text; it gives the empty list for an empty
\* or blank text and, for any other text, chunks of non-blank content with
\* token_count > 0, which are the chunks process_document holds.
C19_NeverRaisesNoEmptyChunk ==
    LET cs == create_chunks(extracted_text, max_tokens, overlap_tokens)
    IN  /\ ~create_chunks_raises(extracted_text)
        /\ (strip(extracted_text) = <<>> => cs = <<>>)
        /\ \A j \in 1..Len(cs) : strip(cs[j].content) # <<>> /\ cs[j].token_count > 0
        /\ (Chunked => chunks = cs)

\* ----------------------------------------------------------------------- C20
\* Chunks j.. are the chunks of sections k..: a section of at most mx tokens
\* has one chunk, the section text itself under the section's token count and
\* outside any split; a section of more than mx tokens has the sub-chunks
\* 0 .. total_sub_chunks - 1.
RECURSIVE WholeOrSplit(_, _, _, _, _)
WholeOrSplit(sections, k, cs, j, mx) ==
    IF k > Len(sections) THEN j = Len(cs) + 1
    ELSE /\ j <= Len(cs)
         /\ IF _count_tokens(sections[k]) <= mx
            THEN /\ cs[j].content = sections[k]
                 /\ cs[j].token_count = _count_tokens(sections[k])
                 /\ cs[j].sub_chunk = -1
                 /\ cs[j].total_sub_chunks = -1
                 /\ WholeOrSplit(sections, k + 1, cs, j + 1, mx)
            ELSE /\ cs[j].sub_chunk = 0
                 /\ cs[j].total_sub_chunks >= 1
                 /\ j + cs[j].total_sub_chunks - 1 <= Len(cs)
                 /\ \A i \in 0..(cs[j].total_sub_chunks - 1) : cs[j + i].sub_chunk = i
                 /\ WholeOrSplit(sections, k + 1, cs, j + cs[j].total_sub_chunks, mx)

\* C20: a section of at most max_tokens tokens, equality included, yields
\* exactly one chunk, the section text unchanged with no continuation prefix
\* and with the section's token count; only a section of more than max_tokens
\* tokens is split into sub-chunks.
C20_FitsInOneChunk ==
    Chunked =>
        WholeOrSplit(_split_into_sections(extracted_text), 1, chunks, 1, max_tokens)

\* A section of exactly max_tokens tokens next to a section that was split
C20_Witness ==
    LET sections == _split_into_sections(extracted_text)
    IN  /\ Chunked
        /\ \E k \in 1..Len(sections) : _count_tokens(sections[k]) = max_tokens
        /\ \E j \in 1..Len(chunks) : chunks[j].sub_chunk >= 1

\* ----------------------------------------------------------------------- C21
Max(S) == CHOOSE x \in S : \A y \in S : x >= y

\* Tokens of the parts a..b, each part counted by itself
RECURSIVE RangeTokens(_, _, _)
RangeTokens(parts, a, b) ==
    IF a > b THEN 0 ELSE _count_tokens(parts[a]) + RangeTokens(parts, a + 1, b)

\* Where the longest suffix of the parts a..b within ov tokens starts; b + 1
\* stands for the empty suffix
SuffixStart(parts, a, b, ov) == Min({x \in a..(b + 1) : RangeTokens(parts, x, b) <= ov})

\* The greedy plan with overlap over the parts up to hi, the buffer holding the
\* parts a..t, of which t is the first new one: the buffer takes parts while
\* its total stays within mx, is flushed as a..b, and the next buffer is the
\* longest suffix of a..b within ov followed by the part b + 1.
RECURSIVE GreedyPlan(_, _, _, _, _, _, _, _)
GreedyPlan(parts, lvl, para, a, t, hi, mx, ov) ==
    LET fits == {x \in t..hi : RangeTokens(parts, a, x) <= mx}
        b == IF fits = {} THEN t ELSE Max(fits)
        item == [lvl |-> lvl, para |-> para, a |-> a, t |-> t, b |-> b]
    IN  IF b = hi THEN <<item>>
        ELSE <<item>> \o GreedyPlan(parts, lvl, para, SuffixStart(parts, a, b, ov),
                                    b + 1, hi, mx, ov)

\* The plan of a split section with the paragraphs ps, from paragraph i on: a
\* run of paragraphs that each fit the budget is planned greedily by
\* paragraphs ("p"), a paragraph that exceeds the budget is planned greedily
\* by its sentences ("s") and shares no buffer with its neighbours.
RECURSIVE SectionPlan(_, _, _, _)
SectionPlan(ps, i, mx, ov) ==
    IF i > Len(ps) THEN <<>>
    ELSE IF _count_tokens(ps[i]) > mx
    THEN LET ss == SplitSentences(ps[i])
         IN  GreedyPlan(ss, "s", i, 1, 1, Len(ss), mx, ov) \o SectionPlan(ps, i + 1, mx, ov)
    ELSE LET big == {x \in i..Len(ps) : _count_tokens(ps[x]) > mx}
             hi == IF big = {} THEN Len(ps) ELSE Min(big) - 1
         IN  GreedyPlan(ps, "p", 0, i, i, hi, mx, ov) \o SectionPlan(ps, hi + 1, mx, ov)

Paragraphs(section) == StripNonBlank(SplitParagraphs(section))

\* The item's buffer is the overlap a..t-1 taken from the tail of the buffer
\* prev flushed, followed by the part t that overflowed prev
SeededFrom(parts, item, prev, mx, ov) ==
    /\ item.t = prev.b + 1
    /\ item.a \in prev.a..item.t
    /\ RangeTokens(parts, item.a, prev.b) <= ov
    /\ (item.a > prev.a => RangeTokens(parts, item.a - 1, prev.b) > ov)
    /\ RangeTokens(parts, prev.a, prev.b) + _count_tokens(parts[item.t]) > mx

\* C21: in a split section, a sub-chunk made of paragraphs that follows a
\* sub-chunk made of paragraphs (the buffer was flushed because the next
\* paragraph would push its token total past max_tokens) is the longest suffix
\* of the flushed paragraphs whose cumulative token count is within
\* overlap_tokens, in their order, followed by the paragraph that triggered
\* the flush and the paragraphs buffered after it.
C21_ParagraphOverlap ==
    LET sections == _split_into_sections(extracted_text)
    IN  Chunked =>
          \A k \in 1..Len(sections) :
             _count_tokens(sections[k]) > max_tokens =>
                LET ps == Paragraphs(sections[k])
                    plan == SectionPlan(ps, 1, max_tokens, overlap_tokens)
                    base == ChunksBefore(sections, k, max_tokens, overlap_tokens)
                IN  /\ base + Len(plan) <= Len(chunks)
                    /\ chunks[base + 1].total_sub_chunks = Len(plan)
                    /\ \A j \in 1..Len(plan) :
                          plan[j].lvl = "p" =>
                             /\ Body(chunks[base + j])
                                  = join(<<"nl", "nl">>, SubSeq(ps, plan[j].a, plan[j].b))
                             /\ (j > 1 /\ plan[j - 1].lvl = "p" =>
                                   SeededFrom(ps, plan[j], plan[j - 1],
                                              max_tokens, overlap_tokens))

\* A buffer of two paragraphs was flushed and only the last of them is carried
\* over
C21_Witness ==
    LET sections == _split_into_sections(extracted_text)
    IN  /\ Chunked
        /\ \E k \in 1..Len(sections) :
              /\ _count_tokens(sections[k]) > max_tokens
              /\ LET plan == SectionPlan(Paragraphs(sections[k]), 1,
                                         max_tokens, overlap_tokens)
                 IN  \E j \in 2..Len(plan) :
                        /\ plan[j].lvl = "p" /\ plan[j - 1].lvl = "p"
                        /\ plan[j - 1].a < plan[j].a
                        /\ plan[j].a < plan[j].t

\* ----------------------------------------------------------------------- C22
\* C22: in a split section, a paragraph that alone exceeds max_tokens is
\* chunked by itself: the paragraphs buffered before it end the chunk before
\* its first chunk, its chunks are runs of its whole sentences joined by
\* blanks, accumulated until the next sentence would exceed max_tokens, each
\* later one seeded with the longest suffix of the flushed sentences within
\* overlap_tokens, and the chunk after its last one starts with the next
\* paragraph; a sentence that exceeds max_tokens is in its chunk whole.
C22_SentenceSplit ==
    LET sections == _split_into_sections(extracted_text)
    IN  Chunked =>
          \A k \in 1..Len(sections) :
             _count_tokens(sections[k]) > max_tokens =>
                LET ps == Paragraphs(sections[k])
                    plan == SectionPlan(ps, 1, max_tokens, overlap_tokens)
                    base == ChunksBefore(sections, k, max_tokens, overlap_tokens)
                IN  /\ base + Len(plan) <= Len(chunks)
                    /\ \A j \in 1..Len(plan) :
                          plan[j].lvl = "s" =>
                             LET ss == SplitSentences(ps[plan[j].para])
                                 first == j = 1 \/ plan[j - 1].lvl = "p"
                                            \/ plan[j - 1].para # plan[j].para
                                 last == j = Len(plan) \/ plan[j + 1].lvl = "p"
                                           \/ plan[j + 1].para # plan[j].para
                             IN  /\ _count_tokens(ps[plan[j].para]) > max_tokens
                                 /\ Body(chunks[base + j])
                                      = join(<<>>, SubSeq(ss, plan[j].a, plan[j].b))
                                 /\ IF first
                                    THEN /\ plan[j].a = 1 /\ plan[j].t = 1
                                         /\ (j > 1 /\ plan[j - 1].lvl = "p" =>
                                               plan[j - 1].b = plan[j].para - 1)
                                    ELSE SeededFrom(ss, plan[j], plan[j - 1],
                                                    max_tokens, overlap_tokens)
                                 /\ (last =>
                                       /\ plan[j].b = Len(ss)
                                       /\ (j < Len(plan) =>
                                             /\ plan[j + 1].t = plan[j + 1].a
                                             /\ IF plan[j + 1].lvl = "p"
                                                THEN plan[j + 1].a = plan[j].para + 1
                                                ELSE plan[j + 1].para = plan[j].para + 1))

\* Buffered paragraphs, then a paragraph split by sentences, one of its chunks
\* holding a repeated sentence and a sentence that exceeds the budget
C22_Witness ==
    LET sections == _split_into_sections(extracted_text)
    IN  /\ Chunked
        /\ \E k \in 1..Len(sections) :
              /\ _count_tokens(sections[k]) > max_tokens
              /\ LET ps == Paragraphs(sections[k])
                     plan == SectionPlan(ps, 1, max_tokens, overlap_tokens)
                 IN  /\ plan[1].lvl = "p"
                     /\ \E j \in 2..Len(plan) :
                           /\ plan[j].lvl = "s" /\ plan[j - 1].lvl = "s"
                           /\ plan[j].a < plan[j].t
                           /\ _count_tokens(SplitSentences(ps[plan[j].para])[plan[j].t])
                                > max_tokens

\* ----------------------------------------------------------------------- C23
HasPrefix(c) == c.content # <<>> /\ c.content[1] = "["

\* The heading between "[Continuação de: " and "]"
PrefixHeading(c) ==
    SubSeq(c.content, 2, Min({i \in 1..Len(c.content) : c.content[i] = "]"}) - 1)

IsInitialSegment(s, t) == Len(s) <= Len(t) /\ s = SubSeq(t, 1, Len(s))

\* C23: the chunk of a section that was not split carries no continuation
\* prefix.  Of the sub-chunks of a split section the first carries none, and
\* each later one starts with the prefix, whose heading is taken from the
\* start of the section's first line, if and only if that first line is
\* shorter than 120 characters; after the prefix comes the sub-chunk text.
\* The sub-chunks record the positions 0 .. total - 1 and the total, in
\* chunk_index order.
C23_ContinuationPrefix ==
    LET sections == _split_into_sections(extracted_text)
    IN  Chunked =>
          \A k \in 1..Len(sections) :
             LET base == ChunksBefore(sections, k, max_tokens, overlap_tokens)
                 fl == first_line(sections[k])
             IN  IF _count_tokens(sections[k]) <= max_tokens
                 THEN ~HasPrefix(chunks[base + 1])
                 ELSE LET subs == _split_long_text(sections[k], max_tokens, overlap_tokens)
                          total == chunks[base + 1].total_sub_chunks
                      IN  /\ total = Len(subs)
                          /\ base + total <= Len(chunks)
                          /\ \A i \in 0..(total - 1) :
                                LET c == chunks[base + 1 + i]
                                IN  /\ c.sub_chunk = i
                                    /\ c.total_sub_chunks = total
                                    /\ c.chunk_index = base + i
                                    /\ Body(c) = subs[i + 1]
                                    /\ HasPrefix(c) <=> (i > 0 /\ char_len(fl) < 120)
                                    /\ (HasPrefix(c) =>
                                          /\ IsInitialSegment(PrefixHeading(c), fl)
                                          /\ PrefixHeading(c) # <<>>)

\* A later sub-chunk with the prefix and, in a section whose first line is 120
\* characters long or longer, a later sub-chunk without it
C23_Witness ==
    /\ Chunked
    /\ \E j \in 1..Len(chunks) : chunks[j].sub_chunk >= 1 /\ HasPrefix(chunks[j])
    /\ \E j \in 1..Len(chunks) : chunks[j].sub_chunk >= 1 /\ ~HasPrefix(chunks[j])

\* ----------------------------------------------------------------------- C24
\* The offsets at which a rule matches: a marker that starts a line and is
\* followed by white space
RuleMatches(t) ==
    {i \in 1..(Len(t) - 1) : t[i] \in SectionMarkers /\ (i = 1 \/ t[i - 1] = "nl")}

\* Where the sections start: the boundaries, and offset 1 when the text before
\* the first boundary is not blank
SectionStarts(t) ==
    LET B == RuleMatches(t)
        first == Min(B \cup {Len(t) + 1})
    IN  SortedSeq(B \cup (IF strip(SubSeq(t, 1, first - 1)) # <<>> THEN {1} ELSE {}))

RECURSIVE SumNonSpace(_)
SumNonSpace(parts) ==
    IF parts = <<>> THEN 0 ELSE NonSpace(parts[1]) + SumNonSpace(Tail(parts))

\* C24: the boundary offsets are the offsets of the rule matches, each once and
\* in ascending order.  The sections are, in text order, the non-blank text
\* before the first boundary and the span from each boundary to the next one,
\* the last span running to the end of the text; they hold every character of
\* the text that is not white space exactly once, and a text without boundary
\* is one section.  The chunks of a section start where the section starts.
C24_Segmenter ==
    LET t == extracted_text
        boundaries == _find_section_boundaries(t)
        sections == _split_into_sections(t)
        starts == SectionStarts(t)
    IN  Chunked =>
          /\ {boundaries[i] : i \in 1..Len(boundaries)} = RuleMatches(t)
          /\ \A i \in 1..(Len(boundaries) - 1) : boundaries[i] < boundaries[i + 1]
          /\ Len(sections) = Len(starts)
          /\ \A i \in 1..Len(sections) :
                LET end == IF i < Len(starts) THEN starts[i + 1] ELSE Len(t) + 1
                IN  strip(sections[i]) = strip(SubSeq(t, starts[i], end - 1))
          /\ SumNonSpace(sections) = NonSpace(t)
          /\ (RuleMatches(t) = {} /\ strip(t) # <<>> => sections = <<t>>)
          /\ \A k \in 1..Len(sections) :
                LET base == ChunksBefore(sections, k, max_tokens, overlap_tokens)
                IN  /\ base + 1 <= Len(chunks)
                    /\ strip(Body(chunks[base + 1]))[1] = strip(sections[k])[1]

\* A preamble and two boundaries
C24_Witness ==
    /\ Chunked
    /\ Len(_find_section_boundaries(extracted_text)) >= 2
    /\ _find_section_boundaries(extracted_text)[1] > 1
    /\ Len(_split_into_sections(extracted_text)) >= 3

\* ----------------------------------------------------------------------- C25
\* The label the rule table gives a section that starts at offset s of the
\* text: that of the marker whose match made the boundary, else the general one
RuleLabel(t, s) == IF s \in RuleMatches(t) THEN "cláusula" ELSE "texto_geral"

\* C25: the section_type of every chunk is the label of the boundary rule that
\* matched where the chunk's section starts, and the general label when no rule
\* matched there: text after the marker, on the first line or after it, never
\* changes the label.  Two sections headed by a clause marker that fit the
\* budget give exactly 2 chunks of the clause label with the indices 0 and 1.
C25_SectionType ==
    LET t == extracted_text
        sections == _split_into_sections(t)
        starts == SectionStarts(t)
    IN  Chunked =>
          /\ \A k \in 1..Len(sections) :
                \A i \in 1..SectionChunkCount(sections[k], max_tokens, overlap_tokens) :
                   chunks[ChunksBefore(sections, k, max_tokens, overlap_tokens) + i]
                       .section_type = RuleLabel(t, starts[k])
          /\ ((/\ Len(sections) = 2
               /\ \A k \in 1..2 : /\ starts[k] \in RuleMatches(t)
                                  /\ _count_tokens(sections[k]) <= max_tokens)
              => (/\ Len(chunks) = 2
                  /\ \A j \in 1..2 : /\ chunks[j].section_type = "cláusula"
                                     /\ chunks[j].chunk_index = j - 1))

\* ----------------------------------------------------------------------- C26
\* The chunks the WHERE clauses of the call admit
Candidates ==
    {c \in DOMAIN document_chunks :
        /\ document_chunks[c].document_id \in DOMAIN documents
        /\ Where(documents, document_chunks, Clauses, c)}

\* The rows of the last pass that the semantic channel supplied
SemanticChannel == {r \in pool : r.semantic_rank # MissingRank}

\* C26: in the strict pass the semantic channel holds the candidates whose
\* distance does not exceed the threshold 0.65, in the fallback pass all the
\* candidates, in both passes up to the channel's row limit, nearest first; the
\* rank of a row is its rank by ascending distance among the retained
\* candidates, so the nearest retained chunk has semantic_rank 1.
C26_DistanceThreshold ==
    AfterPass =>
        LET dist == [c \in Candidates |-> document_chunks[c].distance]
            retained == IF LastRead.use_threshold
                        THEN {c \in Candidates : dist[c] <= _MAX_DISTANCE}
                        ELSE Candidates
            ids == {r.chunk_id : r \in SemanticChannel}
        IN  /\ LastRead.use_threshold = (LastRead.pass = "strict")
            /\ ids \subseteq retained
            /\ \A c \in retained \ ids :
                  /\ Cardinality(ids) = 2 * LastRead.limit
                  /\ \A d \in ids : dist[d] <= dist[c]
            /\ \A r \in SemanticChannel :
                  /\ r.distance = dist[r.chunk_id]
                  /\ r.semantic_rank
                       = 1 + Cardinality({d \in retained : dist[d] < r.distance})
            /\ (SemanticChannel # {} => \E r \in SemanticChannel : r.semantic_rank = 1)

\* ----------------------------------------------------------------------- C27
\* C27: the similarity reported for every returned passage is 1 minus the
\* cosine distance of that chunk to the query embedding (here in hundredths),
\* whichever channel found the chunk.
C27_ReportedSimilarity ==
    rpc = "returned" /\ result.kind = "passages" =>
        \A i \in 1..Len(result.passages) :
            result.passages[i].similarity
                = 100 - document_chunks[result.passages[i].chunk_id].distance

\* ----------------------------------------------------------------------- C28
\* C28: whenever the fallback pass has been executed, a scope filter is in
\* force in its WHERE clauses, an id allow-list that was parsed or a filename
\* pattern: the pass without threshold never reads all the chunks visible to
\* the caller, also when document_ids was malformed or held no id.
C28_FallbackScoped ==
    \A i \in 1..Len(reads) :
        reads[i].pass = "fallback" =>
            \/ Clauses.ids # {}
            \/ Clauses.pattern # <<>>

\* ----------------------------------------------------------------------- C29
\* C29: at most one background run of process_document is under way for the
\* document at any time; reprocess_document answered 409 to every request
\* made while a run had started and not finished; and no two committed sets
\* of chunks come from runs that were under way together.
C29_SingleRun ==
    /\ Cardinality({r \in Tasks : InFlight(r)}) <= 1
    /\ \A i \in 1..Len(replies) : replies[i].in_flight => replies[i].code = 409
    /\ \A i, j \in 1..Len(chunk_sets) :
          i < j => {chunk_sets[i], chunk_sets[j]} \notin overlaps

\* ----------------------------------------------------------------------- C30
\* No background task of the documents API has touched the document
WorkerOnly == \A r \in Tasks : task[r].pc = "none"

\* C30: the job is COMPLETED only if the document reached status processed,
\* and never while the document is failed; a job that is FAILED has used
\* max_retries attempts and its document is failed; attempts never exceeds
\* max_retries.
C30_JobOutcome ==
    /\ job.attempts <= max_retries
    /\ (WorkerOnly /\ job.status = "completed" => d_status = "processed")
    /\ (WorkerOnly /\ job.status = "failed" =>
          job.attempts = max_retries /\ d_status = "failed")

====
